---- MODULE Spec2Model ----
(***************************************************************************)
(* Model of activitysim.core.simulate: the chunked                         *)
(* expression -> utility -> probability -> choice pipeline of              *)
(* simple_simulate / simple_simulate_logsums.                              *)
(*                                                                         *)
(* Tables (pandas DataFrame / Series) are sequences of rows that carry the *)
(* entity key of the row (the pandas index).  Floating point values are    *)
(* integers (utilities, expression values), fixed point integers scaled by *)
(* ExpScale (exponentiated utilities) and exact rationals [n, d]           *)
(* (probabilities and random draws); d = 0 is NaN.                         *)
(***************************************************************************)
EXTENDS Integers, Sequences, FiniteSets, TLC

(***************************************************************************)
(* Bounds of the model                                                     *)
(***************************************************************************)
MaxChoosers == 3

\* denominator of the random draws: r is one of 0/4, 1/4, 2/4, 3/4
DrawDen == 4

\* representation of a missing / not-a-number cell of a float column
NaN == -1000000

VARIABLES
    choosers, spec, nest_spec, skims, locals_d, chunk_size, seed, logsums_mode,
    check_for_variability, global_rng,
    pc, rows_per_chunk, offset, i, chooser_chunk, skim_df,
    expr_i, value_list, expression_values, utilities,
    nested_exp_utilities, nested_probabilities, probs,
    choices, rands, result_list, result, log, rng_offset, chunk_log, rands_list,
    par_pc, par_bound, par_out,
    omnibus_spec, segment, tours

inputs == <<choosers, spec, nest_spec, skims, chunk_size, seed, logsums_mode,
           check_for_variability>>

par_vars == <<par_pc, par_bound, par_out>>

\* the state of the mode choice steps (mode_choice.py)
step_vars == <<omnibus_spec, segment, tours>>

chunk_vars == <<expr_i, value_list, expression_values, utilities,
               nested_exp_utilities, nested_probabilities, probs, choices, rands>>

vars == <<choosers, spec, nest_spec, skims, locals_d, chunk_size, seed, logsums_mode,
          check_for_variability, global_rng,
          pc, rows_per_chunk, offset, i, chooser_chunk, skim_df,
          expr_i, value_list, expression_values, utilities,
          nested_exp_utilities, nested_probabilities, probs,
          choices, rands, result_list, result, log, rng_offset, chunk_log, rands_list,
          par_pc, par_bound, par_out,
          omnibus_spec, segment, tours>>

(***************************************************************************)
(* Generic helpers                                                         *)
(***************************************************************************)
Min(a, b) == IF a < b THEN a ELSE b

Max(a, b) == IF a > b THEN a ELSE b

Range(s) == {s[j] : j \in 1..Len(s)}

RECURSIVE SumSeq(_)
SumSeq(s) == IF s = <<>> THEN 0 ELSE Head(s) + SumSeq(Tail(s))

RECURSIVE MaxSeq(_)
MaxSeq(s) == IF Len(s) = 1 THEN s[1] ELSE Max(s[1], MaxSeq(Tail(s)))

RECURSIVE Flatten(_)
Flatten(ss) == IF ss = <<>> THEN <<>> ELSE Head(ss) \o Flatten(Tail(ss))

RECURSIVE Gcd(_, _)
Gcd(a, b) == IF b = 0 THEN a ELSE Gcd(b, a % b)

\* position of the first element of s equal to v, 0 when absent
PosOf(s, v) == IF v \in Range(s) THEN CHOOSE j \in 1..Len(s) : s[j] = v /\ \A h \in 1..(j-1) : s[h] # v
               ELSE 0

\* injective sequences of length n over set S
InjSeqs(S, n) == {s \in [1..n -> S] : \A a, b \in 1..n : a # b => s[a] # s[b]}

(***************************************************************************)
(* Exact rationals (probabilities, draws); d = 0 is NaN                    *)
(***************************************************************************)
Rat(n, d) == IF d = 0 THEN [n |-> 0, d |-> 0] ELSE [n |-> n \div Gcd(n, d), d |-> d \div Gcd(n, d)]

RNaN == [n |-> 0, d |-> 0]

RIsNaN(a) == a.d = 0

RZero == [n |-> 0, d |-> 1]

ROne == [n |-> 1, d |-> 1]

RAdd(a, b) == IF a.d = 0 \/ b.d = 0 THEN RNaN
              ELSE LET l == (a.d \div Gcd(a.d, b.d)) * b.d
                   IN  Rat(a.n * (l \div a.d) + b.n * (l \div b.d), l)

RMul(a, b) == IF a.d = 0 \/ b.d = 0 THEN RNaN
              ELSE LET g1 == Gcd(a.n, b.d)
                       g2 == Gcd(b.n, a.d)
                       h1 == IF g1 = 0 THEN 1 ELSE g1
                       h2 == IF g2 = 0 THEN 1 ELSE g2
                   IN  Rat((a.n \div h1) * (b.n \div h2), (a.d \div h2) * (b.d \div h1))

\* a > b ; every comparison with NaN is false
RGt(a, b) == a.d # 0 /\ b.d # 0 /\ a.n * b.d > b.n * a.d

\* a >= b ; every comparison with NaN is false
RGe(a, b) == a.d # 0 /\ b.d # 0 /\ a.n * b.d >= b.n * a.d

RECURSIVE RSum(_)
RSum(s) == IF s = <<>> THEN RZero ELSE RAdd(Head(s), RSum(Tail(s)))

\* numpy cumsum(axis=1) of one row
RCumSum(s) == [j \in 1..Len(s) |-> RSum(SubSeq(s, 1, j))]

(***************************************************************************)
(* Floating point exp: exponentiated utilities are fixed point, scaled by  *)
(* ExpScale.  exp underflows to exactly 0 for very negative arguments      *)
(* (the -999 "unavailable" coefficients).                                  *)
(***************************************************************************)
ExpScale == 1000

ExpTable == <<0, 1, 2, 7, 18, 50, 135, 368, 1000, 2718, 7389, 20086, 54598,
              148413, 403429, 1096633, 2980958>>

\* np.exp; arguments of the model are in -8..8 or far below
Exp(u) == IF u = NaN THEN NaN
          ELSE IF u < -8 THEN 0
          ELSE ExpTable[u + 9]

\* np.log of a fixed point value, to integer precision (floor); log(0) = -inf
NegInf == -999999

Log(x) == IF x = NaN THEN NaN
          ELSE IF x <= 0 THEN NegInf
          ELSE CHOOSE l \in -8..8 : ExpTable[l + 9] <= x /\ (l = 8 \/ x < ExpTable[l + 10])

(***************************************************************************)
(* Input tables                                                            *)
(***************************************************************************)
\* entity keys (the index values of the chooser table)
Keys == 1..MaxChoosers

\* the chooser table's columns
ChooserColumns == <<"x", "zone">>

\* one row of the chooser table: the attributes are data of the entity
Row(k) == [key |-> k, x |-> k % 2, zone |-> (k \div 2) % 2]

\* chooser tables: one to MaxChoosers rows, the entities 1..n in any order
ChooserTables == UNION {{[j \in 1..n |-> Row(ix[j])] : ix \in InjSeqs(1..n, n)} : n \in Keys}

Index(df) == [j \in 1..Len(df) |-> df[j].key]

\* expressions: at is the leading '@' marker, body the rest of the string
TableExpr(b) == [at |-> FALSE, body |-> b]

EnvExpr(b) == [at |-> TRUE, body |-> b]

UNAVAIL == -999

\* model specs: expressions (the index), alternatives (the columns), coefficients
SpecBasic == [exprs |-> <<TableExpr("x"), EnvExpr("c")>>,
              alts  |-> <<"a", "b", "c">>,
              coef  |-> <<<<1, 0, -1>>, <<0, 1, 0>>>>]

SpecUnavail == [exprs |-> <<TableExpr("x"), EnvExpr("c")>>,
                alts  |-> <<"a", "b", "c">>,
                coef  |-> <<<<UNAVAIL, UNAVAIL, UNAVAIL>>, <<1, 0, 0>>>>]

SpecSkim == [exprs |-> <<TableExpr("zone"), EnvExpr("od_skims"), EnvExpr("dot_skims")>>,
             alts  |-> <<"a", "b", "c">>,
             coef  |-> <<<<0, 1, 0>>, <<-1, 0, 0>>, <<0, 0, 1>>>>]

SpecBadEnv == [exprs |-> <<TableExpr("x"), EnvExpr("oops"), EnvExpr("c")>>,
               alts  |-> <<"a", "b", "c">>,
               coef  |-> <<<<1, 0, 0>>, <<0, 1, 0>>, <<0, 0, 1>>>>]

SpecBadCol == [exprs |-> <<EnvExpr("c"), TableExpr("income"), TableExpr("x")>>,
               alts  |-> <<"a", "b", "c">>,
               coef  |-> <<<<1, 0, 0>>, <<0, 1, 0>>, <<0, 0, 1>>>>]

\* alternatives a and b are unavailable to every chooser
SpecDeadNest == [exprs |-> <<TableExpr("x"), EnvExpr("c")>>,
                 alts  |-> <<"a", "b", "c">>,
                 coef  |-> <<<<0, 0, 1>>, <<UNAVAIL, UNAVAIL, 0>>>>]

\* the second expression has a missing value for the choosers whose x is 0
SpecMissing == [exprs |-> <<TableExpr("x"), EnvExpr("m")>>,
                alts  |-> <<"a", "b", "c">>,
                coef  |-> <<<<1, 0, -1>>, <<0, 1, 0>>>>]

Specs == {SpecBasic, SpecUnavail, SpecSkim, SpecBadEnv, SpecBadCol, SpecDeadNest, SpecMissing}

\* lookup providers (skim wrappers) are objects, named by an id
SkimWrappers == {1, 2}

\* the skim matrix of each provider: value per zone of the row
SkimMatrix == <<<<0, 1>>, <<2, 1>>>>

\* the caller's environment: constants, the skim wrappers (mode_choice.py
\* 43-49), m, a function of a column of df that is missing where the
\* column is 0, and a table the caller keeps under the name df
LocalsD == [c |-> [t |-> "scalar", v |-> 1],
            df |-> [t |-> "table", v |-> <<>>],
            m |-> [t |-> "where", v |-> "x"],
            od_skims |-> [t |-> "skim", v |-> 1],
            dot_skims |-> [t |-> "skim", v |-> 2]]

(***************************************************************************)
(* Nest tree (logit.each_nest, logit.count_nests)                          *)
(* A nest_spec is the list of its nodes, root first; None is the empty     *)
(* list.  A node has a name, a coefficient and the names of its children   *)
(* (alternatives); a leaf has no children.                                 *)
(***************************************************************************)
NoNest == <<>>

Half == [n |-> 1, d |-> 2]

Leaf(nm) == [name |-> nm, coefficient |-> ROne, alternatives |-> <<>>]

Node(nm, co, alts) == [name |-> nm, coefficient |-> co, alternatives |-> alts]

\* root -> a, b, c
NestFlat == <<Node("root", ROne, <<"a", "b", "c">>), Leaf("a"), Leaf("b"), Leaf("c")>>

\* root -> AUTO(0.5) -> a, b ; root -> c
NestAuto == <<Node("root", ROne, <<"AUTO", "c">>), Node("AUTO", Half, <<"a", "b">>),
              Leaf("a"), Leaf("b"), Leaf("c")>>

\* root -> c ; root -> TRANSIT(0.5) -> b, a   (leaves not in the Spec's column order)
NestTransit == <<Node("root", ROne, <<"c", "TRANSIT">>), Leaf("c"),
                 Node("TRANSIT", Half, <<"b", "a">>), Leaf("b"), Leaf("a")>>

\* root -> c ; root -> UNIT(1) -> b, a   (every coefficient is 1)
NestUnit == <<Node("root", ROne, <<"c", "UNIT">>), Leaf("c"),
              Node("UNIT", ROne, <<"b", "a">>), Leaf("b"), Leaf("a")>>

NestSpecs == {NoNest, NestFlat, NestAuto, NestTransit, NestUnit}

NestNode(ns, nm) == ns[CHOOSE j \in 1..Len(ns) : ns[j].name = nm]

is_leaf(ns, nm) == NestNode(ns, nm).alternatives = <<>>

RECURSIVE PreOrder(_, _)
PreOrder(ns, nm) ==
    <<nm>> \o Flatten([j \in 1..Len(NestNode(ns, nm).alternatives) |->
                          PreOrder(ns, NestNode(ns, nm).alternatives[j])])

RECURSIVE PostOrder(_, _)
PostOrder(ns, nm) ==
    Flatten([j \in 1..Len(NestNode(ns, nm).alternatives) |->
                PostOrder(ns, NestNode(ns, nm).alternatives[j])]) \o <<nm>>

\* logit.each_nest(nest_spec, type, post_order): names of the nests visited, in order
each_nest(ns, type, post_order) ==
    LET all == IF post_order THEN PostOrder(ns, ns[1].name) ELSE PreOrder(ns, ns[1].name)
    IN  SelectSeq(all, LAMBDA nm : \/ type = "all"
                                   \/ type = "leaf" /\ is_leaf(ns, nm)
                                   \/ type = "node" /\ ~is_leaf(ns, nm))

\* logit.count_nests: number of nests (nodes and leaves) of the tree
count_nests(ns) == Len(each_nest(ns, "all", FALSE))

\* Nest.ancestors: names on the path from the root down to the nest itself
RECURSIVE Ancestors(_, _)
Ancestors(ns, nm) ==
    IF nm = ns[1].name THEN <<nm>>
    ELSE LET parent == CHOOSE j \in 1..Len(ns) : nm \in Range(ns[j].alternatives)
         IN  Ancestors(ns, ns[parent].name) \o <<nm>>

\* Nest.product_of_coefficients of a leaf: product of the coefficients of
\* the nests above it, the root excluded
RECURSIVE RProd(_)
RProd(s) == IF s = <<>> THEN ROne ELSE RMul(Head(s), RProd(Tail(s)))

product_of_coefficients(ns, nm) ==
    LET anc == Ancestors(ns, nm)
    IN  RProd([j \in 1..(Len(anc) - 2) |-> NestNode(ns, anc[j + 1]).coefficient])

(***************************************************************************)
(* Chunk sizing (simple_simulate_rpc, chunk.rows_per_chunk)                *)
(***************************************************************************)
\* chunk.rows_per_chunk: the number of rows whose cells fit in chunk_size,
\* at least one row and at most all choosers
rows_per_chunk_calc(cs, row_size, num_choosers) ==
    Min(Max(cs \div row_size, 1), num_choosers)

\* simple_simulate_rpc, lines 614-624
extra_columns(sp, ns) ==
    IF ns = NoNest
    THEN Len(sp.exprs) + (2 * Len(sp.alts))
    ELSE Len(sp.exprs) + (2 * Len(sp.alts)) + (2 * count_nests(ns)) - 1

\* simple_simulate_logsums_rpc, lines 823-833
logsums_extra_columns(sp, ns) ==
    IF ns = NoNest
    THEN Len(sp.exprs) + Len(sp.alts)
    ELSE Len(sp.exprs) + Len(sp.alts) + count_nests(ns)

\* simple_simulate_rpc, line 628: row_size = chooser_row_size + extra_columns
row_size(chooser_row_size, extra) == chooser_row_size + extra

\* mutant: chunk_size and row_size are passed to rows_per_chunk in the wrong order
simple_simulate_rpc_swapped(cs, df, sp, ns) ==
    IF cs = 0 THEN Len(df)
    ELSE rows_per_chunk_calc(row_size(Len(ChooserColumns), extra_columns(sp, ns)), cs, Len(df))

\* mutant: the "not chunking" early return is missing
simple_simulate_rpc_no_early_return(cs, df, sp, ns) ==
    rows_per_chunk_calc(cs, row_size(Len(ChooserColumns), extra_columns(sp, ns)), Len(df))

\* simple_simulate_rpc
simple_simulate_rpc(cs, df, sp, ns) ==
    IF cs = 0 THEN Len(df)
    ELSE rows_per_chunk_calc(cs, row_size(Len(ChooserColumns), extra_columns(sp, ns)), Len(df))

\* simple_simulate_logsums_rpc
simple_simulate_logsums_rpc(cs, df, sp, ns) ==
    IF cs = 0 THEN Len(df)
    ELSE rows_per_chunk_calc(cs, row_size(Len(ChooserColumns), logsums_extra_columns(sp, ns)), Len(df))

\* chunk.chunked_choosers: the rows of the chunk that starts after `off` rows
chunked_choosers(df, rpc, off) == SubSeq(df, off + 1, Min(off + rpc, Len(df)))

(***************************************************************************)
(* Expression evaluation (eval_variables)                                  *)
(* A Series is a sequence of [key, v]; a DataFrame of values is            *)
(* [index, columns, data] with data[r][c] the cell of row r, column c.     *)
(***************************************************************************)
\* the names that are local to eval_variables at line 115: its parameters
EvalParameters == {"exprs", "df", "locals_d", "target_type"}

\* mutant: the dictionary passed in is updated, without a copy
eval_variables_dicts_no_copy(ld, df) ==
    LET loc == [k \in EvalParameters |->
                  IF k = "df" THEN [t |-> "table", v |-> df] ELSE [t |-> "object", v |-> k]]
        upd == [k \in (DOMAIN ld) \cup EvalParameters |-> IF k \in EvalParameters THEN loc[k] ELSE ld[k]]
    IN  [caller |-> upd, env |-> upd]

\* mutant: the names of the caller take precedence over the locals
eval_variables_dicts_caller_wins(ld, df) ==
    LET loc == [k \in EvalParameters |->
                  IF k = "df" THEN [t |-> "table", v |-> df] ELSE [t |-> "object", v |-> k]]
    IN  [caller |-> ld,
         env    |-> [k \in (DOMAIN ld) \cup EvalParameters |-> IF k \in DOMAIN ld THEN ld[k] ELSE loc[k]]]

\* lines 114-115: locals_d = locals_d.copy(); locals_d.update(locals()).
\* caller is the dictionary passed in, as it is afterwards, env the
\* dictionary the '@' expressions are evaluated in
eval_variables_dicts(ld, df) ==
    LET copy == ld
        loc  == [k \in EvalParameters |->
                   IF k = "df" THEN [t |-> "table", v |-> df] ELSE [t |-> "object", v |-> k]]
    IN  [caller |-> ld,
         env    |-> [k \in (DOMAIN copy) \cup EvalParameters |->
                       IF k \in EvalParameters THEN loc[k] ELSE copy[k]]]

\* mutant: the broadcast series is built without index=df.index
to_series_default_index(x, df) == [j \in 1..Len(df) |-> [key |-> j - 1, v |-> x]]

\* eval_variables.to_series, lines 117-120: a scalar is broadcast over df.index
to_series(x, df) == [j \in 1..Len(df) |-> [key |-> df[j].key, v |-> x]]

\* SkimDictWrapper lookup: one value per row of the wrapper's current df
skim_lookup(w, sdf) == [j \in 1..Len(sdf[w]) |-> [key |-> sdf[w][j].key,
                                                  v |-> SkimMatrix[w][sdf[w][j].zone + 1]]]

\* a series over df.index: column col of df, missing where it is 0
where_nonzero(col, df) ==
    [j \in 1..Len(df) |-> [key |-> df[j].key, v |-> IF df[j][col] = 0 THEN NaN ELSE df[j][col]]]

\* eval(expr[1:], globals(), locals_d), line 130
eval_python(body, df, ld, sdf) ==
    IF body \notin DOMAIN ld THEN [ok |-> FALSE, values |-> <<>>]
    ELSE IF ld[body].t = "scalar" THEN [ok |-> TRUE, values |-> to_series(ld[body].v, df)]
    ELSE IF ld[body].t = "where" THEN [ok |-> TRUE, values |-> where_nonzero(ld[body].v, ld["df"].v)]
    ELSE IF sdf[ld[body].v] = <<>> THEN [ok |-> FALSE, values |-> <<>>]
    ELSE [ok |-> TRUE, values |-> skim_lookup(ld[body].v, sdf)]

\* df.eval(expr), line 132
df_eval(body, df) ==
    IF body \notin Range(ChooserColumns) THEN [ok |-> FALSE, values |-> <<>>]
    ELSE [ok |-> TRUE, values |-> [j \in 1..Len(df) |-> [key |-> df[j].key, v |-> df[j][body]]]]

\* the body of the try block, lines 129-132
eval_expr(expr, df, ld, sdf) ==
    IF expr.at THEN eval_python(expr.body, df, eval_variables_dicts(ld, df).env, sdf)
    ELSE df_eval(expr.body, df)

\* union of the indexes of the series, in order of first appearance
RECURSIVE UnionIndex(_, _)
UnionIndex(acc, sl) ==
    IF sl = <<>> THEN acc
    ELSE LET more == SelectSeq([j \in 1..Len(Head(sl)) |-> Head(sl)[j].key],
                               LAMBDA k : k \notin Range(acc))
         IN  UnionIndex(acc \o more, Tail(sl))

SeriesAt(ser, k) ==
    IF \E j \in 1..Len(ser) : ser[j].key = k
    THEN ser[CHOOSE j \in 1..Len(ser) : ser[j].key = k].v
    ELSE NaN

\* pd.DataFrame.from_items(value_list), line 140: the columns are aligned on the index
from_items(vl) ==
    LET idx == UnionIndex(<<>>, [c \in 1..Len(vl) |-> vl[c].values])
    IN  [index   |-> idx,
         columns |-> [c \in 1..Len(vl) |-> vl[c].expr],
         data    |-> [r \in 1..Len(idx) |-> [c \in 1..Len(vl) |-> SeriesAt(vl[c].values, idx[r])]]]

NoFrame == [index |-> <<>>, columns |-> <<>>, data |-> <<>>]

(***************************************************************************)
(* Utilities (compute_utilities)                                           *)
(***************************************************************************)
FMul(a, b) == IF a = NaN \/ b = NaN THEN NaN ELSE a * b

RECURSIVE FSum(_)
FSum(s) == IF s = <<>> THEN 0
           ELSE IF Head(s) = NaN \/ FSum(Tail(s)) = NaN THEN NaN
           ELSE Head(s) + FSum(Tail(s))

\* mutant: the product is rebuilt from bare arrays and loses the chooser index
compute_utilities_reset_index(ev, sp) ==
    [index   |-> [r \in 1..Len(ev.index) |-> r - 1],
     columns |-> sp.alts,
     data    |-> [r \in 1..Len(ev.index) |->
                    [a \in 1..Len(sp.alts) |->
                       FSum([x \in 1..Len(sp.exprs) |->
                               FMul(ev.data[r][PosOf(ev.columns, sp.exprs[x])], sp.coef[x][a])])]]]

\* mutant: the matrix product of the bare arrays, columns taken by position
compute_utilities_by_position(ev, sp) ==
    [index   |-> ev.index,
     columns |-> sp.alts,
     data    |-> [r \in 1..Len(ev.index) |->
                    [a \in 1..Len(sp.alts) |->
                       FSum([x \in 1..Len(sp.exprs) |-> FMul(ev.data[r][x], sp.coef[x][a])])]]]

\* expression_values.dot(spec): columns of expression_values are matched with
\* the rows of spec by expression
compute_utilities(ev, sp) ==
    [index   |-> ev.index,
     columns |-> sp.alts,
     data    |-> [r \in 1..Len(ev.index) |->
                    [a \in 1..Len(sp.alts) |->
                       FSum([x \in 1..Len(sp.exprs) |->
                               FMul(ev.data[r][PosOf(ev.columns, sp.exprs[x])], sp.coef[x][a])])]]]

(***************************************************************************)
(* Probabilities (logit.utils_to_probs)                                    *)
(***************************************************************************)
\* shares of already exponentiated utilities; a zero sum gives zero
\* probabilities when allow_zero_probs
exp_to_probs(e) ==
    LET tot == FSum(e)
    IN  [j \in 1..Len(e) |-> IF tot = NaN THEN RNaN
                             ELSE IF tot = 0 THEN RZero
                             ELSE Rat(e[j], tot)]

\* MNL: exp(u - max u) / sum
mnl_probs(u) ==
    IF NaN \in Range(u) THEN [j \in 1..Len(u) |-> RNaN]
    ELSE exp_to_probs([j \in 1..Len(u) |-> Exp(u[j] - MaxSeq(u))])

\* logit.utils_to_probs(utilities) of eval_mnl line 406
utils_to_probs(ut) ==
    [index |-> ut.index, columns |-> ut.columns,
     data  |-> [r \in 1..Len(ut.index) |-> mnl_probs(ut.data[r])]]

(***************************************************************************)
(* Nested logit (compute_nested_exp_utilities, compute_nested_probabilities*)
(* compute_base_probabilities), one row at a time                          *)
(***************************************************************************)
RECURSIVE ISqrtIter(_, _)
ISqrtIter(n, x) == LET y == (x + n \div x) \div 2 IN IF y >= x THEN x ELSE ISqrtIter(n, y)

ISqrt(n) == IF n <= 0 THEN 0 ELSE ISqrtIter(n, n)

\* raw_utility / product_of_coefficients
FDiv(u, p) == IF u = NaN THEN NaN ELSE (u * p.d) \div p.n

\* mutant: the non-finite logarithm of a zero sum is not absorbed by exp
nest_exp_no_collapse(co, tot) ==
    IF tot = NaN \/ tot = 0 THEN NaN
    ELSE IF co = ROne THEN tot
    ELSE ISqrt(tot * ExpScale)

\* exp(coefficient * log(s)) of a fixed point s: s to the power coefficient;
\* log(0) = -inf and exp(-inf) = 0
nest_exp(co, tot) ==
    IF tot = NaN THEN NaN
    ELSE IF tot = 0 THEN 0
    ELSE IF co = ROne THEN tot
    ELSE ISqrt(tot * ExpScale)

\* one iteration of the loop of lines 257-277 for nest po[k]; acc holds the
\* columns computed so far, in the order of po
nested_exp_utility(ns, po, k, acc, raw, raw_cols) ==
    IF is_leaf(ns, po[k])
    THEN Exp(FDiv(raw[PosOf(raw_cols, po[k])], product_of_coefficients(ns, po[k])))
    ELSE nest_exp(NestNode(ns, po[k]).coefficient,
                  FSum([c \in 1..Len(NestNode(ns, po[k]).alternatives) |->
                          acc[PosOf(po, NestNode(ns, po[k]).alternatives[c])]]))

RECURSIVE NestedExpLoop(_, _, _, _, _)
NestedExpLoop(ns, po, acc, raw, raw_cols) ==
    IF Len(acc) = Len(po) THEN acc
    ELSE NestedExpLoop(ns, po, Append(acc, nested_exp_utility(ns, po, Len(acc) + 1, acc, raw, raw_cols)),
                       raw, raw_cols)

\* mutant: the nests are visited parents first
nest_visit_order_pre_order(ns) == each_nest(ns, "all", FALSE)

\* line 257: for nest in logit.each_nest(nest_spec, post_order=True)
nest_visit_order(ns) == each_nest(ns, "all", TRUE)

\* compute_nested_exp_utilities: columns are the nests in post order
compute_nested_exp_utilities(ut, ns) ==
    LET po == nest_visit_order(ns)
    IN  [index |-> ut.index, columns |-> po,
         data  |-> [r \in 1..Len(ut.index) |-> NestedExpLoop(ns, po, <<>>, ut.data[r], ut.columns)]]

\* mutant: the shares are taken of the root's exponentiated utility, not of
\* the sum over the siblings
compute_nested_probabilities_of_root(neu, ns) ==
    LET nodes == each_nest(ns, "node", FALSE)
        cols  == Flatten([n \in 1..Len(nodes) |-> NestNode(ns, nodes[n]).alternatives])
    IN  [index |-> neu.index, columns |-> cols,
         data  |-> [r \in 1..Len(neu.index) |->
                      [c \in 1..Len(cols) |->
                         IF neu.data[r][PosOf(neu.columns, ns[1].name)] = 0 THEN RZero
                         ELSE Rat(neu.data[r][PosOf(neu.columns, cols[c])],
                                  neu.data[r][PosOf(neu.columns, ns[1].name)])]]]

\* mutant: a nest whose alternatives sum to zero gets uniform shares
compute_nested_probabilities_uniform_fallback(neu, ns) ==
    LET nodes == each_nest(ns, "node", FALSE)
        cols  == Flatten([n \in 1..Len(nodes) |-> NestNode(ns, nodes[n]).alternatives])
        exps(r, n) == [c \in 1..Len(NestNode(ns, nodes[n]).alternatives) |->
                          neu.data[r][PosOf(neu.columns, NestNode(ns, nodes[n]).alternatives[c])]]
    IN  [index |-> neu.index, columns |-> cols,
         data  |-> [r \in 1..Len(neu.index) |->
                      Flatten([n \in 1..Len(nodes) |->
                                 IF FSum(exps(r, n)) = 0
                                 THEN [c \in 1..Len(exps(r, n)) |-> Rat(1, Len(exps(r, n)))]
                                 ELSE exp_to_probs(exps(r, n))])]]

\* compute_nested_probabilities: for every node, the shares of its
\* alternatives (allow_zero_probs); columns are concatenated node by node
compute_nested_probabilities(neu, ns) ==
    LET nodes == each_nest(ns, "node", FALSE)
        cols  == Flatten([n \in 1..Len(nodes) |-> NestNode(ns, nodes[n]).alternatives])
    IN  [index |-> neu.index, columns |-> cols,
         data  |-> [r \in 1..Len(neu.index) |->
                      Flatten([n \in 1..Len(nodes) |->
                                 exp_to_probs([c \in 1..Len(NestNode(ns, nodes[n]).alternatives) |->
                                    neu.data[r][PosOf(neu.columns, NestNode(ns, nodes[n]).alternatives[c])]])])]]



\* nested_probabilities[ancestors].prod(axis=1) of one row: missing values
\* are skipped
row_prod(p) == RProd(SelectSeq(p, LAMBDA x : ~RIsNaN(x)))

\* mutant: a leaf's probability is its share within its own nest only
compute_base_probabilities_own_nest_only(np, ns) ==
    LET leaves == each_nest(ns, "leaf", FALSE)
    IN  [index |-> np.index, columns |-> leaves,
         data  |-> [r \in 1..Len(np.index) |->
                      [l \in 1..Len(leaves) |-> np.data[r][PosOf(np.columns, leaves[l])]]]]

\* mutant: the child of the root is skipped along with the root
compute_base_probabilities_skip_two(np, ns) ==
    LET leaves == each_nest(ns, "leaf", FALSE)
    IN  [index |-> np.index, columns |-> leaves,
         data  |-> [r \in 1..Len(np.index) |->
                      [l \in 1..Len(leaves) |->
                         row_prod([a \in 1..(Len(Ancestors(ns, leaves[l])) - 2) |->
                                     np.data[r][PosOf(np.columns, Ancestors(ns, leaves[l])[a + 2])]])]]]

\* compute_base_probabilities: for every leaf the product of the nested
\* probabilities of ancestors[1:]
compute_base_probabilities(np, ns) ==
    LET leaves == each_nest(ns, "leaf", FALSE)
    IN  [index |-> np.index, columns |-> leaves,
         data  |-> [r \in 1..Len(np.index) |->
                      [l \in 1..Len(leaves) |->
                         row_prod([a \in 1..(Len(Ancestors(ns, leaves[l])) - 1) |->
                                     np.data[r][PosOf(np.columns, Ancestors(ns, leaves[l])[a + 1])]])]]]

\* eval_nl lines 502-505: |sum - 1| > BAD_PROB_THRESHOLD
BAD_PROB_THRESHOLD == [n |-> 1, d |-> 1000]

\* base_probabilities.sum(axis=1) of one row: missing values are skipped
row_sum(p) == RSum(SelectSeq(p, LAMBDA x : ~RIsNaN(x)))

\* mutant: a deviation equal to the threshold is flagged too
no_choices_non_strict(bp) ==
    [r \in 1..Len(bp.index) |->
        LET tot == row_sum(bp.data[r])
        IN  RGe([n |-> IF tot.n > tot.d THEN tot.n - tot.d ELSE tot.d - tot.n, d |-> tot.d],
                BAD_PROB_THRESHOLD)]

no_choices(bp) ==
    [r \in 1..Len(bp.index) |->
        LET tot == row_sum(bp.data[r])
        IN  RGt([n |-> IF tot.n > tot.d THEN tot.n - tot.d ELSE tot.d - tot.n, d |-> tot.d],
                BAD_PROB_THRESHOLD)]

(***************************************************************************)
(* Choice sampler (logit.make_choices) and random stream                   *)
(* (pipeline.get_rn_generator().random_for_df)                             *)
(***************************************************************************)
Seeds == {0, 1}

\* the n-th draw of the stream of entity k under base seed sd, in [0, 1)
Stream(sd, k, n) == Rat((3 * sd + 5 * k + 7 * n) % DrawDen, DrawDen)

\* random_for_df(df): one draw per row, from the stream of the row's key
random_for_df(index, sd, offs) ==
    [r \in 1..Len(index) |-> [key |-> index[r], v |-> Stream(sd, index[r], offs[index[r]])]]

\* every row of df has consumed one draw of its stream
advance_streams(index, offs) ==
    [k \in DOMAIN offs |-> offs[k] + Cardinality({r \in 1..Len(index) : index[r] = k})]

\* the row cannot be sampled: its probabilities do not sum to at least the
\* draw, or sum to zero, or (comment of simulate.py 501) do not sum to 1
bad_row(p, r) ==
    \/ ~RGe(RSum(p), r)
    \/ RSum(p) = RZero
    \/ RGt(RSum(p), RAdd(ROne, BAD_PROB_THRESHOLD))

\* position (from 0) of the first column whose cumulative probability
\* exceeds r; argmax of an all-false row is 0
choose_row(p, r) ==
    LET cum == RCumSum(p)
        hit == {j \in 1..Len(p) : RGt(cum[j], r)}
    IN  IF hit = {} THEN 0 ELSE (CHOOSE j \in hit : \A h \in hit : j <= h) - 1

make_choices_fails(pr, rn) == \E r \in 1..Len(pr.index) : bad_row(pr.data[r], rn[r].v)

make_choices(pr, rn) ==
    [r \in 1..Len(pr.index) |-> [key |-> pr.index[r], v |-> choose_row(pr.data[r], rn[r].v)]]

(***************************************************************************)
(* Logsums (eval_mnl_logsums lines 708-710, eval_nl_logsums lines 766-767) *)
(***************************************************************************)
\* line 710, pd.Series(array, index=choosers.index): raises unless the array
\* has one value per row of choosers
mnl_logsums_fails(ut, df) == Len(ut.index) # Len(df)

\* lines 708-710: the values are taken by position
mnl_logsums(ut, df) ==
    [r \in 1..Len(df) |-> [key |-> df[r].key,
                           v |-> Log(FSum([a \in 1..Len(ut.columns) |-> Exp(ut.data[r][a])]))]]

\* lines 766-767, pd.Series(series, index=choosers.index): the series is
\* reindexed, a key it does not have is missing
nl_logsums(neu, df) ==
    [r \in 1..Len(df) |->
        [key |-> df[r].key,
         v   |-> IF \E q \in 1..Len(neu.index) : neu.index[q] = df[r].key
                 THEN Log(neu.data[CHOOSE q \in 1..Len(neu.index) : neu.index[q] = df[r].key]
                                  [PosOf(neu.columns, "root")])
                 ELSE NaN]]

(***************************************************************************)
(* simple_simulate / simple_simulate_logsums as a state machine            *)
(***************************************************************************)
ChunkSizes == {0, 5, 25, 40}

\* the skims argument: None, or the wrappers the Spec's expressions use
SkimArgs == {<<>>, <<1, 2>>}

\* the calls that enable the variability check
CheckedSpecs == {SpecBasic, SpecMissing}

Init ==
    /\ choosers \in ChooserTables
    /\ spec \in Specs
    /\ nest_spec \in NestSpecs
    /\ skims \in (IF spec = SpecSkim THEN SkimArgs ELSE {<<>>})
    /\ locals_d = LocalsD
    /\ chunk_size \in ChunkSizes
    /\ seed \in Seeds
    /\ logsums_mode \in BOOLEAN
    /\ check_for_variability \in (IF spec \in CheckedSpecs THEN BOOLEAN ELSE {FALSE})
    /\ global_rng = 0
    /\ omnibus_spec = <<>>
    /\ segment = ""
    /\ tours = <<>>
    /\ pc = "start"
    /\ rows_per_chunk = 0
    /\ offset = 0
    /\ i = 0
    /\ chooser_chunk = <<>>
    /\ skim_df = [w \in SkimWrappers |-> <<>>]
    /\ expr_i = 0
    /\ value_list = <<>>
    /\ expression_values = NoFrame
    /\ utilities = NoFrame
    /\ nested_exp_utilities = NoFrame
    /\ nested_probabilities = NoFrame
    /\ probs = NoFrame
    /\ choices = <<>>
    /\ rands = <<>>
    /\ result_list = <<>>
    /\ result = <<>>
    /\ log = <<>>
    /\ rng_offset = [k \in 0..(MaxChoosers + 1) |-> 0]
    /\ chunk_log = <<>>
    /\ rands_list = <<>>
    /\ par_pc = <<>>
    /\ par_bound = <<>>
    /\ par_out = <<>>

\* simple_simulate lines 645-652, simple_simulate_logsums lines 855-861
Start ==
    /\ pc = "start"
    /\ rows_per_chunk' = IF logsums_mode
                         THEN simple_simulate_logsums_rpc(chunk_size, choosers, spec, nest_spec)
                         ELSE simple_simulate_rpc(chunk_size, choosers, spec, nest_spec)
    /\ pc' = "chunk"
    /\ UNCHANGED <<inputs, step_vars, locals_d, par_vars, global_rng, offset, i, chooser_chunk, skim_df, chunk_vars,
                   result_list, result, log, rng_offset, chunk_log, rands_list>>

\* the for statement of lines 656 / 865: the next chunk of chunk.chunked_choosers
NextChunk ==
    /\ pc = "chunk"
    /\ offset < Len(choosers)
    /\ chooser_chunk' = chunked_choosers(choosers, rows_per_chunk, offset)
    /\ offset' = offset + rows_per_chunk
    /\ i' = i + 1
    /\ chunk_log' = Append(chunk_log, Index(chooser_chunk'))
    /\ pc' = "add_skims"
    /\ UNCHANGED <<inputs, step_vars, locals_d, par_vars, global_rng, rows_per_chunk, skim_df, chunk_vars,
                   result_list, result, log, rng_offset, rands_list>>

\* mutant: only the first wrapper of the list is bound to df
add_skims_first_only(df, sk, sdf) == [w \in SkimWrappers |-> IF w = Head(sk) THEN df ELSE sdf[w]]

\* add_skims, lines 188-194: every wrapper of the list is bound to df
add_skims(df, sk, sdf) == [w \in SkimWrappers |-> IF w \in Range(sk) THEN df ELSE sdf[w]]

\* _simple_simulate lines 588-589 and the start of eval_variables, lines 113-123
AddSkims ==
    /\ pc = "add_skims"
    /\ skim_df' = IF skims # <<>> THEN add_skims(chooser_chunk, skims, skim_df) ELSE skim_df
    /\ locals_d' = eval_variables_dicts(locals_d, chooser_chunk).caller
    /\ expr_i' = 1
    /\ value_list' = <<>>
    /\ pc' = "eval_variables"
    /\ UNCHANGED <<inputs, step_vars, par_vars, global_rng, rows_per_chunk, offset, i, chooser_chunk,
                   expression_values, utilities, nested_exp_utilities, nested_probabilities,
                   probs, choices, rands,
                   result_list, result, log, rng_offset, chunk_log, rands_list>>

\* mutant: the except clause logs the failure and goes on with the next expression
EvalExpr_continue ==
    /\ pc = "eval_variables"
    /\ expr_i <= Len(spec.exprs)
    /\ LET res == eval_expr(spec.exprs[expr_i], chooser_chunk, locals_d, skim_df)
       IN  IF res.ok
           THEN /\ value_list' = Append(value_list, [expr |-> spec.exprs[expr_i], values |-> res.values])
                /\ expr_i' = expr_i + 1
                /\ UNCHANGED <<pc, log>>
           ELSE /\ log' = Append(log, [kind |-> "exception", chunk |-> i, item |-> expr_i])
                /\ expr_i' = expr_i + 1
                /\ UNCHANGED <<value_list, pc>>
    /\ UNCHANGED <<inputs, step_vars, locals_d, par_vars, global_rng, rows_per_chunk, offset, i, chooser_chunk, skim_df,
                   expression_values, utilities, nested_exp_utilities, nested_probabilities,
                   probs, choices, rands,
                   result_list, result, rng_offset, chunk_log, rands_list>>

\* one iteration of the loop of eval_variables, lines 124-137
EvalExpr ==
    /\ pc = "eval_variables"
    /\ expr_i <= Len(spec.exprs)
    /\ LET res == eval_expr(spec.exprs[expr_i], chooser_chunk, locals_d, skim_df)
       IN  IF res.ok
           THEN /\ value_list' = Append(value_list, [expr |-> spec.exprs[expr_i], values |-> res.values])
                /\ expr_i' = expr_i + 1
                /\ UNCHANGED <<pc, log>>
           ELSE /\ log' = Append(log, [kind |-> "exception", chunk |-> i, item |-> expr_i])
                /\ pc' = "raised"
                /\ UNCHANGED <<value_list, expr_i>>
    /\ UNCHANGED <<inputs, step_vars, locals_d, par_vars, global_rng, rows_per_chunk, offset, i, chooser_chunk, skim_df,
                   expression_values, utilities, nested_exp_utilities, nested_probabilities,
                   probs, choices, rands,
                   result_list, result, rng_offset, chunk_log, rands_list>>

\* the end of eval_variables, lines 138-148
EvalReturn ==
    /\ pc = "eval_variables"
    /\ expr_i > Len(spec.exprs)
    /\ expression_values' = from_items(value_list)
    /\ pc' = "check_for_variability"
    /\ UNCHANGED <<inputs, step_vars, locals_d, par_vars, global_rng, rows_per_chunk, offset, i, chooser_chunk, skim_df,
                   expr_i, value_list, utilities, nested_exp_utilities, nested_probabilities,
                   probs, choices, rands,
                   result_list, result, log, rng_offset, chunk_log, rands_list>>

(***************************************************************************)
(* The optional variability check (_check_for_variability, random_rows)    *)
(***************************************************************************)
\* the number of rows the check looks at: 1000 in the source, scaled to the
\* tables of the model
VariabilitySampleRows == 2

\* random_rows(df, n), lines 25-33: the row positions that may be taken; the
\* output of the global generator is not determined here
random_rows(len, n) ==
    IF len > n THEN {S \in SUBSET (1..len) : Cardinality(S) = n} ELSE {1..len}

\* the values of column c over the sampled rows
SampleValues(ev, S, c) == {ev.data[r][c] : r \in S}

\* v.min() == v.max(), line 215 (missing values are skipped)
no_variability(ev, S, c) == Cardinality(SampleValues(ev, S, c) \ {NaN}) = 1

\* np.count_nonzero(v.isnull().values) > 0, line 222
has_missing_vals(ev, S, c) == NaN \in SampleValues(ev, S, c)

\* the columns the loop of lines 213-226 gets to: it ends at the first column
\* with missing values, where formatting the message of line 225 raises
ColumnsChecked(ev, S) ==
    LET miss == {c \in 1..Len(ev.columns) : has_missing_vals(ev, S, c)}
    IN  IF miss = {} THEN Len(ev.columns) ELSE CHOOSE c \in miss : \A h \in miss : c <= h

\* mutant: the warning of line 228 is repeated for every column without
\* variability
variability_log_warn_per_column(ev, S, chunk) ==
    LET flat == SelectSeq([c \in 1..ColumnsChecked(ev, S) |-> c], LAMBDA c : no_variability(ev, S, c))
        info == [k \in 1..Len(flat) |-> [kind |-> "no_variability", chunk |-> chunk, item |-> flat[k]]]
    IN  info \o [k \in 1..Len(flat) |-> [kind |-> "warn_no_variability", chunk |-> chunk, item |-> k]]

\* the messages of lines 217 and 228
variability_log(ev, S, chunk) ==
    LET flat == SelectSeq([c \in 1..ColumnsChecked(ev, S) |-> c], LAMBDA c : no_variability(ev, S, c))
        info == [k \in 1..Len(flat) |-> [kind |-> "no_variability", chunk |-> chunk, item |-> flat[k]]]
    IN  IF flat # <<>> /\ \A c \in 1..Len(ev.columns) : ~has_missing_vals(ev, S, c)
        THEN Append(info, [kind |-> "warn_no_variability", chunk |-> chunk, item |-> Len(flat)])
        ELSE info

\* lines 395-396 / 479-480 / 700-701 / 754-755: if check_for_variability:
\* _check_for_variability(expression_values, trace_label)
CheckForVariability ==
    /\ pc = "check_for_variability"
    /\ IF ~check_for_variability
       THEN /\ pc' = "compute"
            /\ UNCHANGED <<log, global_rng>>
       ELSE \E S \in random_rows(Len(expression_values.index),
                                 Min(VariabilitySampleRows, Len(expression_values.index))) :
               /\ global_rng' = IF Len(expression_values.index) > VariabilitySampleRows
                                THEN global_rng + 1 ELSE global_rng
               /\ log' = log \o variability_log(expression_values, S, i)
               /\ pc' = IF \E c \in 1..Len(expression_values.columns) :
                              has_missing_vals(expression_values, S, c)
                        THEN "raised" ELSE "compute"
    /\ UNCHANGED <<inputs, step_vars, locals_d, par_vars, rows_per_chunk, offset, i, chooser_chunk, skim_df,
                   expr_i, value_list, expression_values,
                   utilities, nested_exp_utilities, nested_probabilities,
                   probs, choices, rands,
                   result_list, result, rng_offset, chunk_log, rands_list>>

\* mutant: the probabilities are the shares of the bare exponentiated utilities,
\* zero rows allowed, as in the call of compute_nested_probabilities
ComputeMnl_allow_zero_probs ==
    /\ pc = "compute"
    /\ ~logsums_mode
    /\ nest_spec = NoNest
    /\ utilities' = compute_utilities(expression_values, spec)
    /\ probs' = [index |-> utilities'.index, columns |-> utilities'.columns,
                 data  |-> [r \in 1..Len(utilities'.index) |->
                              exp_to_probs([a \in 1..Len(utilities'.columns) |->
                                              Exp(utilities'.data[r][a])])]]
    /\ pc' = "make_choices"
    /\ UNCHANGED <<inputs, step_vars, locals_d, par_vars, global_rng, rows_per_chunk, offset, i, chooser_chunk, skim_df,
                   expr_i, value_list, expression_values,
                   nested_exp_utilities, nested_probabilities, choices, rands,
                   result_list, result, log, rng_offset, chunk_log, rands_list>>

\* eval_mnl lines 403-406
ComputeMnl ==
    /\ pc = "compute"
    /\ ~logsums_mode
    /\ nest_spec = NoNest
    /\ utilities' = compute_utilities(expression_values, spec)
    /\ probs' = utils_to_probs(utilities')
    /\ pc' = "make_choices"
    /\ UNCHANGED <<inputs, step_vars, locals_d, par_vars, global_rng, rows_per_chunk, offset, i, chooser_chunk, skim_df,
                   expr_i, value_list, expression_values,
                   nested_exp_utilities, nested_probabilities, choices, rands,
                   result_list, result, log, rng_offset, chunk_log, rands_list>>

\* mutant: report_bad_choices ends the evaluation
ComputeNl_raise_on_bad_probs ==
    /\ pc = "compute"
    /\ ~logsums_mode
    /\ nest_spec # NoNest
    /\ utilities' = compute_utilities(expression_values, spec)
    /\ nested_exp_utilities' = compute_nested_exp_utilities(utilities', nest_spec)
    /\ nested_probabilities' = compute_nested_probabilities(nested_exp_utilities', nest_spec)
    /\ probs' = compute_base_probabilities(nested_probabilities', nest_spec)
    /\ log' = IF \E r \in 1..Len(probs'.index) : no_choices(probs')[r]
              THEN Append(log, [kind |-> "bad_probs", chunk |-> i,
                                item |-> Cardinality({r \in 1..Len(probs'.index) : no_choices(probs')[r]})])
              ELSE log
    /\ pc' = IF \E r \in 1..Len(probs'.index) : no_choices(probs')[r] THEN "raised" ELSE "make_choices"
    /\ UNCHANGED <<inputs, step_vars, locals_d, par_vars, global_rng, rows_per_chunk, offset, i, chooser_chunk, skim_df,
                   expr_i, value_list, expression_values, choices, rands,
                   result_list, result, rng_offset, chunk_log, rands_list>>

\* eval_nl lines 484-512
ComputeNl ==
    /\ pc = "compute"
    /\ ~logsums_mode
    /\ nest_spec # NoNest
    /\ utilities' = compute_utilities(expression_values, spec)
    /\ nested_exp_utilities' = compute_nested_exp_utilities(utilities', nest_spec)
    /\ nested_probabilities' = compute_nested_probabilities(nested_exp_utilities', nest_spec)
    /\ probs' = compute_base_probabilities(nested_probabilities', nest_spec)
    /\ log' = IF \E r \in 1..Len(probs'.index) : no_choices(probs')[r]
              THEN Append(log, [kind |-> "bad_probs", chunk |-> i,
                                item |-> Cardinality({r \in 1..Len(probs'.index) : no_choices(probs')[r]})])
              ELSE log
    /\ pc' = "make_choices"
    /\ UNCHANGED <<inputs, step_vars, locals_d, par_vars, global_rng, rows_per_chunk, offset, i, chooser_chunk, skim_df,
                   expr_i, value_list, expression_values, choices, rands,
                   result_list, result, rng_offset, chunk_log, rands_list>>

\* mutant: the logsum path takes a draw for every row, as the choice path does
ComputeLogsums_with_draws ==
    /\ pc = "compute"
    /\ logsums_mode
    /\ utilities' = compute_utilities(expression_values, spec)
    /\ nested_exp_utilities' = IF nest_spec = NoNest THEN nested_exp_utilities
                               ELSE compute_nested_exp_utilities(utilities', nest_spec)
    /\ choices' = IF nest_spec = NoNest
                  THEN mnl_logsums(utilities', chooser_chunk)
                  ELSE nl_logsums(nested_exp_utilities', chooser_chunk)
    /\ rng_offset' = advance_streams(utilities'.index, rng_offset)
    /\ pc' = "append"
    /\ UNCHANGED <<inputs, step_vars, locals_d, par_vars, global_rng, rows_per_chunk, offset, i, chooser_chunk, skim_df,
                   expr_i, value_list, expression_values, nested_probabilities, probs, rands,
                   result_list, result, log, chunk_log, rands_list>>

\* eval_mnl_logsums lines 704-729, eval_nl_logsums lines 759-788
ComputeLogsums ==
    /\ pc = "compute"
    /\ logsums_mode
    /\ utilities' = compute_utilities(expression_values, spec)
    /\ nested_exp_utilities' = IF nest_spec = NoNest THEN nested_exp_utilities
                               ELSE compute_nested_exp_utilities(utilities', nest_spec)
    /\ IF nest_spec = NoNest /\ mnl_logsums_fails(utilities', chooser_chunk)
       THEN pc' = "raised" /\ UNCHANGED choices
       ELSE /\ choices' = IF nest_spec = NoNest
                          THEN mnl_logsums(utilities', chooser_chunk)
                          ELSE nl_logsums(nested_exp_utilities', chooser_chunk)
            /\ pc' = "append"
    /\ UNCHANGED <<inputs, step_vars, locals_d, par_vars, global_rng, rows_per_chunk, offset, i, chooser_chunk, skim_df,
                   expr_i, value_list, expression_values, nested_probabilities, probs, rands,
                   result_list, result, log, rng_offset, chunk_log, rands_list>>

\* mutant: eval_nl hands the nested (per nest) probabilities to the sampler
MakeChoices_nested_probabilities ==
    /\ pc = "make_choices"
    /\ LET pr == IF nest_spec = NoNest THEN probs ELSE nested_probabilities
       IN  /\ rands' = random_for_df(pr.index, seed, rng_offset)
           /\ rng_offset' = advance_streams(pr.index, rng_offset)
           /\ rands_list' = rands_list \o rands'
           /\ IF make_choices_fails(pr, rands')
              THEN /\ pc' = "raised"
                   /\ log' = Append(log, [kind |-> "exception", chunk |-> i, item |-> 0])
                   /\ UNCHANGED choices
              ELSE /\ choices' = make_choices(pr, rands')
                   /\ pc' = "append"
                   /\ UNCHANGED log
    /\ UNCHANGED <<inputs, step_vars, locals_d, par_vars, global_rng, rows_per_chunk, offset, i, chooser_chunk, skim_df,
                   expr_i, value_list, expression_values, utilities,
                   nested_exp_utilities, nested_probabilities, probs,
                   result_list, result, chunk_log>>

\* mutant: the error of the sampler is caught and the loop goes on to the next chunk
MakeChoices_skip_failed_chunk ==
    /\ pc = "make_choices"
    /\ rands' = random_for_df(probs.index, seed, rng_offset)
    /\ rng_offset' = advance_streams(probs.index, rng_offset)
    /\ rands_list' = rands_list \o rands'
    /\ IF make_choices_fails(probs, rands')
       THEN /\ pc' = "chunk"
            /\ log' = Append(log, [kind |-> "exception", chunk |-> i, item |-> 0])
            /\ UNCHANGED choices
       ELSE /\ choices' = make_choices(probs, rands')
            /\ pc' = "append"
            /\ UNCHANGED log
    /\ UNCHANGED <<inputs, step_vars, locals_d, par_vars, global_rng, rows_per_chunk, offset, i, chooser_chunk, skim_df,
                   expr_i, value_list, expression_values, utilities,
                   nested_exp_utilities, nested_probabilities, probs,
                   result_list, result, chunk_log>>

\* logit.make_choices called at eval_mnl line 409 / eval_nl line 516
MakeChoices ==
    /\ pc = "make_choices"
    /\ rands' = random_for_df(probs.index, seed, rng_offset)
    /\ rng_offset' = advance_streams(probs.index, rng_offset)
    /\ rands_list' = rands_list \o rands'
    /\ IF make_choices_fails(probs, rands')
       THEN /\ pc' = "raised"
            /\ log' = Append(log, [kind |-> "exception", chunk |-> i, item |-> 0])
            /\ UNCHANGED choices
       ELSE /\ choices' = make_choices(probs, rands')
            /\ pc' = "append"
            /\ UNCHANGED log
    /\ UNCHANGED <<inputs, step_vars, locals_d, par_vars, global_rng, rows_per_chunk, offset, i, chooser_chunk, skim_df,
                   expr_i, value_list, expression_values, utilities,
                   nested_exp_utilities, nested_probabilities, probs,
                   result_list, result, chunk_log>>

\* mutant: result_list is overwritten instead of appended to
AppendResult_overwrite ==
    /\ pc = "append"
    /\ result_list' = <<choices>>
    /\ pc' = "chunk"
    /\ UNCHANGED <<inputs, step_vars, locals_d, par_vars, global_rng, rows_per_chunk, offset, i, chooser_chunk, skim_df, chunk_vars,
                   result, log, rng_offset, chunk_log, rands_list>>

\* result_list.append(choices), lines 669 / 877
AppendResult ==
    /\ pc = "append"
    /\ result_list' = Append(result_list, choices)
    /\ pc' = "chunk"
    /\ UNCHANGED <<inputs, step_vars, locals_d, par_vars, global_rng, rows_per_chunk, offset, i, chooser_chunk, skim_df, chunk_vars,
                   result, log, rng_offset, chunk_log, rands_list>>

\* mutant: the chunks are never concatenated, the last chunk's result is returned
concat_results_last_only(rl, last) == last

\* lines 671-672 / 879-880: pd.concat when there is more than one chunk
concat_results(rl, last) == IF Len(rl) > 1 THEN Flatten(rl) ELSE last

\* lines 674 / 882, assert len(choices.index == len(choosers.index)): the
\* comparison of the index with a number is elementwise, its length is the
\* length of the index, and the assertion passes when that is not 0
final_assert(ch, df) == Len([j \in 1..Len(ch) |-> ch[j].key = Len(df)]) # 0

\* the end of the loop and lines 671-676 / 879-884
Return ==
    /\ pc = "chunk"
    /\ offset >= Len(choosers)
    /\ result' = concat_results(result_list, choices)
    /\ pc' = IF final_assert(result', choosers) THEN "returned" ELSE "raised"
    /\ UNCHANGED <<inputs, step_vars, locals_d, par_vars, global_rng, rows_per_chunk, offset, i, chooser_chunk, skim_df, chunk_vars,
                   result_list, log, rng_offset, chunk_log, rands_list>>

Next ==
    \/ Start
    \/ NextChunk
    \/ AddSkims
    \/ EvalExpr
    \/ EvalReturn
    \/ CheckForVariability
    \/ ComputeMnl
    \/ ComputeNl
    \/ ComputeLogsums
    \/ MakeChoices
    \/ AppendResult
    \/ Return

Spec == Init /\ [][Next]_vars

(***************************************************************************)
(* The whole population processed as one chunk, from the initial streams   *)
(***************************************************************************)
FreshSkimDf == [w \in SkimWrappers |-> <<>>]

FreshStreams == [k \in 0..(MaxChoosers + 1) |-> 0]

pipeline_probs(ut) ==
    IF nest_spec = NoNest THEN utils_to_probs(ut)
    ELSE compute_base_probabilities(
            compute_nested_probabilities(compute_nested_exp_utilities(ut, nest_spec), nest_spec),
            nest_spec)

\* the expressions of the Spec evaluated on df with the providers bound as in sdf
eval_all(df, sdf) == [e \in 1..Len(spec.exprs) |-> eval_expr(spec.exprs[e], df, locals_d, sdf)]

\* _simple_simulate on table df alone: add_skims, eval_variables, probabilities, sampler
ChunkRun(df) ==
    LET sdf == IF skims # <<>> THEN add_skims(df, skims, FreshSkimDf) ELSE FreshSkimDf
        res == eval_all(df, sdf)
    IN  IF \E e \in 1..Len(res) : ~res[e].ok
        THEN [raised |-> TRUE, values |-> NoFrame, choices |-> <<>>, rands |-> <<>>]
        ELSE LET ev == from_items([e \in 1..Len(res) |-> [expr |-> spec.exprs[e], values |-> res[e].values]])
                 pr == pipeline_probs(compute_utilities(ev, spec))
                 rn == random_for_df(pr.index, seed, FreshStreams)
             IN  IF make_choices_fails(pr, rn)
                 THEN [raised |-> TRUE, values |-> ev, choices |-> <<>>, rands |-> rn]
                 ELSE [raised |-> FALSE, values |-> ev, choices |-> make_choices(pr, rn), rands |-> rn]

OneChunk == ChunkRun(choosers)

(***************************************************************************)
(* SpecPar: the per-chunk pipelines (_simple_simulate) of one              *)
(* simple_simulate call run as processes that interleave.  They share the  *)
(* read-only inputs, the random streams and the lookup providers handed in *)
(* as skims, whose current table every add_skims call rebinds.             *)
(***************************************************************************)
ParChunkSizes == {5, 25}

num_chunks(n, rpc) == (n \div rpc) + (IF n % rpc > 0 THEN 1 ELSE 0)

\* the rows of chunk c of the call
ParChunk(c) == chunked_choosers(choosers, rows_per_chunk, (c - 1) * rows_per_chunk)

NoOut == [raised |-> FALSE, values |-> NoFrame, choices |-> <<>>, rands |-> <<>>]

\* the calls of SpecPar: two or three choosers, a Spec without and one with
\* provider lookups, the multinomial and a nested tree
ParChooserTables == {t \in ChooserTables : Len(t) \in {2, 3} /\ Range(Index(t)) \subseteq {1, 2, 3}}
ParSpecs == {SpecBasic, SpecSkim, SpecBadCol}
ParNestSpecs == {NoNest, NestTransit}

InitPar ==
    /\ choosers \in ParChooserTables
    /\ spec \in ParSpecs
    /\ nest_spec \in ParNestSpecs
    /\ skims \in (IF spec = SpecSkim THEN SkimArgs ELSE {<<>>})
    /\ locals_d = LocalsD
    /\ chunk_size \in ParChunkSizes
    /\ seed \in Seeds
    /\ logsums_mode = FALSE
    /\ check_for_variability = FALSE
    /\ global_rng = 0
    /\ omnibus_spec = <<>>
    /\ segment = ""
    /\ tours = <<>>
    /\ pc = "start"
    /\ rows_per_chunk = 0
    /\ offset = 0
    /\ i = 0
    /\ chooser_chunk = <<>>
    /\ skim_df = FreshSkimDf
    /\ expr_i = 0
    /\ value_list = <<>>
    /\ expression_values = NoFrame
    /\ utilities = NoFrame
    /\ nested_exp_utilities = NoFrame
    /\ nested_probabilities = NoFrame
    /\ probs = NoFrame
    /\ choices = <<>>
    /\ rands = <<>>
    /\ result_list = <<>>
    /\ result = <<>>
    /\ log = <<>>
    /\ rng_offset = FreshStreams
    /\ chunk_log = <<>>
    /\ rands_list = <<>>
    /\ par_pc = <<>>
    /\ par_bound = <<>>
    /\ par_out = <<>>

seq_vars == <<offset, i, chooser_chunk, chunk_vars, result_list, result, log, chunk_log, rands_list>>

\* simple_simulate lines 645-656: the chunk row-count, then one process per chunk
ParStart ==
    /\ pc = "start"
    /\ rows_per_chunk' = simple_simulate_rpc(chunk_size, choosers, spec, nest_spec)
    /\ pc' = "par"
    /\ par_pc' = [c \in 1..num_chunks(Len(choosers), rows_per_chunk') |-> "add_skims"]
    /\ par_bound' = [c \in 1..num_chunks(Len(choosers), rows_per_chunk') |-> FreshSkimDf]
    /\ par_out' = [c \in 1..num_chunks(Len(choosers), rows_per_chunk') |-> NoOut]
    /\ UNCHANGED <<inputs, step_vars, locals_d, global_rng, seq_vars, skim_df, rng_offset>>

\* _simple_simulate lines 588-589 for chunk c
ParAddSkims(c) ==
    /\ pc = "par"
    /\ par_pc[c] = "add_skims"
    /\ skim_df' = IF skims # <<>> THEN add_skims(ParChunk(c), skims, skim_df) ELSE skim_df
    /\ par_pc' = [par_pc EXCEPT ![c] = "eval_variables"]
    /\ UNCHANGED <<inputs, step_vars, locals_d, global_rng, seq_vars, rows_per_chunk, pc, rng_offset, par_bound, par_out>>

\* eval_variables for chunk c, lines 113-148, with the providers as they are bound now
ParEvalVariables(c) ==
    /\ pc = "par"
    /\ par_pc[c] = "eval_variables"
    /\ par_bound' = [par_bound EXCEPT ![c] = skim_df]
    /\ LET res == eval_all(ParChunk(c), skim_df)
       IN  IF \E e \in 1..Len(res) : ~res[e].ok
           THEN /\ par_out' = [par_out EXCEPT ![c].raised = TRUE]
                /\ par_pc' = [par_pc EXCEPT ![c] = "done"]
           ELSE /\ par_out' = [par_out EXCEPT ![c].values =
                                  from_items([e \in 1..Len(res) |->
                                                [expr |-> spec.exprs[e], values |-> res[e].values]])]
                /\ par_pc' = [par_pc EXCEPT ![c] = "make_choices"]
    /\ UNCHANGED <<inputs, step_vars, locals_d, global_rng, seq_vars, rows_per_chunk, pc, skim_df, rng_offset>>

\* eval_mnl lines 403-409 / eval_nl lines 484-516 for chunk c
ParMakeChoices(c) ==
    /\ pc = "par"
    /\ par_pc[c] = "make_choices"
    /\ LET pr == pipeline_probs(compute_utilities(par_out[c].values, spec))
           rn == random_for_df(pr.index, seed, rng_offset)
       IN  /\ rng_offset' = advance_streams(pr.index, rng_offset)
           /\ par_out' = [par_out EXCEPT ![c].rands = rn,
                                         ![c].raised = make_choices_fails(pr, rn),
                                         ![c].choices = IF make_choices_fails(pr, rn) THEN <<>>
                                                        ELSE make_choices(pr, rn)]
    /\ par_pc' = [par_pc EXCEPT ![c] = "done"]
    /\ UNCHANGED <<inputs, step_vars, locals_d, global_rng, seq_vars, rows_per_chunk, pc, skim_df, par_bound>>

NextPar ==
    \/ ParStart
    \/ \E c \in DOMAIN par_pc : ParAddSkims(c)
    \/ \E c \in DOMAIN par_pc : ParEvalVariables(c)
    \/ \E c \in DOMAIN par_pc : ParMakeChoices(c)

SpecPar == InitPar /\ [][NextPar]_vars

\* the providers passed as skims were bound to the rows of chunk c when its
\* expressions were evaluated
BoundToOwnChunk(c) == \A w \in Range(skims) : par_bound[c][w] = ParChunk(c)

\* chunk c has evaluated its expressions
Evaluated(c) == par_pc[c] \in {"make_choices", "done"}

C1_ChunkingInvariance ==
    /\ (pc = "returned" /\ ~logsums_mode) =>
          /\ ~OneChunk.raised
          /\ result = OneChunk.choices
          /\ rands_list = OneChunk.rands
    /\ (pc = "raised" /\ ~logsums_mode) => OneChunk.raised

C1_Witness ==
    /\ pc = "returned"
    /\ ~logsums_mode
    /\ Len(choosers) = 3
    /\ Len(result_list) = 2
    /\ \E a, b \in 1..Len(result) : result[a].v # result[b].v

(***************************************************************************)
(* C2: the draw an entity receives is the first draw of the stream of its  *)
(* key under the base seed, whatever its chunk and its position in the     *)
(* chunk, and the draws of a chunk are taken for the keys of its rows.     *)
(***************************************************************************)
C2_DrawKeyedByEntity ==
    /\ \A j \in 1..Len(rands_list) :
          /\ rands_list[j].key = Index(choosers)[j]
          /\ rands_list[j].v = Stream(seed, Index(choosers)[j], 0)
    /\ pc = "append" /\ ~logsums_mode => [j \in 1..Len(rands) |-> rands[j].key] = Index(chooser_chunk)

C2_Witness ==
    /\ pc = "append"
    /\ i = 2
    /\ rows_per_chunk = 2
    /\ Index(choosers) = <<3, 1, 2>>
    /\ Len(rands_list) = 3

(***************************************************************************)
(* C3: the chunks are consecutive runs of the input rows: every chunk but  *)
(* the last has rows_per_chunk rows, the chunks taken so far are a prefix  *)
(* of the input, and the returned result lists the entities of the input   *)
(* in input order, each once (simple_simulate and simple_simulate_logsums).*)
(***************************************************************************)
C3_ChunksPartitionInput ==
    /\ Flatten(chunk_log) = SubSeq(Index(choosers), 1, Len(Flatten(chunk_log)))
    /\ \A c \in 1..Len(chunk_log) :
          /\ Len(chunk_log[c]) >= 1
          /\ Len(chunk_log[c]) <= rows_per_chunk
          /\ c < Len(chunk_log) => Len(chunk_log[c]) = rows_per_chunk
    /\ pc = "returned" =>
          /\ Flatten(chunk_log) = Index(choosers)
          /\ [j \in 1..Len(result) |-> result[j].key] = Index(choosers)

C3_Witness ==
    /\ pc = "returned"
    /\ logsums_mode
    /\ Len(chunk_log) = 2
    /\ Len(chunk_log[2]) < rows_per_chunk
    /\ Index(choosers) = <<2, 3, 1>>

(***************************************************************************)
(* C5 (amended): for a positive chunk_size the chunk row-count is at least *)
(* 1 and at most the number of entities, and a chunk exceeds the budget by *)
(* less than the cost of one row: (rows - 1) * per-row cost <= chunk_size. *)
(***************************************************************************)
RowCost ==
    Len(ChooserColumns) + (IF logsums_mode THEN logsums_extra_columns(spec, nest_spec)
                           ELSE extra_columns(spec, nest_spec))

C6_ZeroMeansOneChunk ==
    chunk_size = 0 =>
        /\ pc # "start" => rows_per_chunk = Len(choosers)
        /\ Len(chunk_log) <= 1
        /\ pc = "returned" => chunk_log = <<Index(choosers)>>

C6_Witness ==
    /\ chunk_size = 0
    /\ pc = "returned"
    /\ ~logsums_mode
    /\ nest_spec = NestAuto
    /\ Len(choosers) = 3
    /\ i = 1

(***************************************************************************)
(* C7: when the sampler has chosen for a chunk, every row has exactly one  *)
(* choice: the first column, in the column order of the probability        *)
(* matrix, whose cumulative probability exceeds the row's draw.            *)
(***************************************************************************)
C7_FirstAlternativeExceedingDraw ==
    (pc = "append" /\ ~logsums_mode) =>
        /\ Len(choices) = Len(chooser_chunk)
        /\ Len(probs.data) = Len(chooser_chunk)
        /\ \A r \in 1..Len(choices) :
              /\ choices[r].v \in 0..(Len(probs.columns) - 1)
              /\ RGt(RSum(SubSeq(probs.data[r], 1, choices[r].v + 1)), rands[r].v)
              /\ \A h \in 1..choices[r].v : ~RGt(RSum(SubSeq(probs.data[r], 1, h)), rands[r].v)

C7_Witness ==
    /\ pc = "append"
    /\ ~logsums_mode
    /\ nest_spec = NestTransit
    /\ \E r \in 1..Len(choices) : choices[r].v = 1
    /\ \E r \in 1..Len(choices) : choices[r].v = 0

(***************************************************************************)
(* C8: once the sampler has met a row whose probabilities do not sum to    *)
(* the draw (an all-zero nested logit row), the call is aborted and        *)
(* returns no choice for any entity, also not for the chunks done before.  *)
(***************************************************************************)
SampledBadRow ==
    /\ ~logsums_mode
    /\ pc \notin {"start", "make_choices"}
    /\ Len(rands) = Len(probs.index)
    /\ \E r \in 1..Len(rands) : bad_row(probs.data[r], rands[r].v)

C8_BadRowAbortsCall == SampledBadRow => (pc = "raised" /\ result = <<>>)

C8_Witness ==
    /\ SampledBadRow
    /\ pc = "raised"
    /\ Len(result_list) >= 1
    /\ \E r \in 1..Len(rands) : RSum(probs.data[r]) = RZero /\ RGt(rands[r].v, RZero)

(***************************************************************************)
(* C9: when an expression of the current chunk fails to evaluate, no       *)
(* expression after it is evaluated, no expression-value matrix is built   *)
(* for the chunk, and the call ends raised with the failing expression     *)
(* logged and nothing returned.                                            *)
(***************************************************************************)
FailingExprs ==
    {e \in 1..Len(spec.exprs) : ~eval_expr(spec.exprs[e], chooser_chunk, locals_d, skim_df).ok}

FirstFailing == CHOOSE e \in FailingExprs : \A h \in FailingExprs : e <= h

C9_FailingExpressionAborts ==
    (pc \in {"eval_variables", "check_for_variability", "compute", "make_choices", "append", "raised"}
        /\ FailingExprs # {}) =>
        /\ expr_i <= FirstFailing
        /\ Len(value_list) < FirstFailing
        /\ pc \in {"eval_variables", "raised"}
        /\ pc = "raised" =>
              /\ log # <<>>
              /\ log[Len(log)] = [kind |-> "exception", chunk |-> i, item |-> FirstFailing]
              /\ expression_values.index # Index(chooser_chunk)
              /\ result = <<>>

C9_Witness ==
    /\ pc = "raised"
    /\ FailingExprs # {}
    /\ FirstFailing = 2
    /\ Len(spec.exprs) = 3
    /\ Len(value_list) = 1

Perms(n) == InjSeqs(1..n, n)

PermuteColumns(ev, p) ==
    [index   |-> ev.index,
     columns |-> [c \in 1..Len(ev.columns) |-> ev.columns[p[c]]],
     data    |-> [r \in 1..Len(ev.index) |-> [c \in 1..Len(ev.columns) |-> ev.data[r][p[c]]]]]

PermuteSpecRows(sp, q) ==
    [exprs |-> [x \in 1..Len(sp.exprs) |-> sp.exprs[q[x]]],
     alts  |-> sp.alts,
     coef  |-> [x \in 1..Len(sp.exprs) |-> sp.coef[q[x]]]]

\* the value of entity row r for expression x, found by the column's name
ValueOf(ev, r, x) == ev.data[r][CHOOSE c \in 1..Len(ev.columns) : ev.columns[c] = x]

UtilitiesComputed == pc \in {"make_choices", "append"} /\ utilities # NoFrame

C11_UtilitiesAlignedByExpression ==
    UtilitiesComputed =>
        /\ utilities.index = expression_values.index
        /\ utilities.columns = spec.alts
        /\ \A r \in 1..Len(expression_values.index) : \A a \in 1..Len(spec.alts) :
              utilities.data[r][a] =
                  FSum([x \in 1..Len(spec.exprs) |->
                          FMul(ValueOf(expression_values, r, spec.exprs[x]), spec.coef[x][a])])
        /\ \A p \in Perms(Len(expression_values.columns)) :
              compute_utilities(PermuteColumns(expression_values, p), spec) = utilities
        /\ \A q \in Perms(Len(spec.exprs)) :
              compute_utilities(expression_values, PermuteSpecRows(spec, q)) = utilities

\* utilities of a three-expression Spec whose columns differ in some row
C11_Witness ==
    /\ UtilitiesComputed
    /\ Len(spec.exprs) = 3
    /\ \E r \in 1..Len(expression_values.index) :
          expression_values.data[r][2] # expression_values.data[r][3]
    /\ \E r \in 1..Len(utilities.index) : \E a \in 1..Len(spec.alts) : utilities.data[r][a] # 0

(***************************************************************************)
(* C12: in flat (MNL) mode every row of the probability matrix handed to   *)
(* the sampler whose utilities have no missing value holds only            *)
(* non-negative values, and they sum to 1 (exactly, so within 1e-9).        *)
(***************************************************************************)
MnlProbsReady == pc = "make_choices" /\ nest_spec = NoNest

\* no utility of row r is a missing value
FiniteUtilities(r) == NaN \notin Range(utilities.data[r])

C12_MnlRowsSumToOne ==
    MnlProbsReady =>
        \A r \in 1..Len(probs.index) :
            FiniteUtilities(r) =>
                /\ Len(probs.data[r]) = Len(spec.alts)
                /\ \A a \in 1..Len(spec.alts) : RGe(probs.data[r][a], RZero)
                /\ RSum(probs.data[r]) = ROne

\* C12 as stated, for every utility matrix: the rows of the probability
\* matrix are non-negative and sum to 1
C12_Original ==
    MnlProbsReady =>
        \A r \in 1..Len(probs.index) :
            /\ Len(probs.data[r]) = Len(spec.alts)
            /\ \A a \in 1..Len(spec.alts) : RGe(probs.data[r][a], RZero)
            /\ RSum(probs.data[r]) = ROne

\* a chunk with a row of unequal probabilities and a row whose utilities
\* carry the unavailable coefficient
C12_Witness ==
    /\ MnlProbsReady
    /\ spec = SpecUnavail
    /\ Len(probs.index) >= 2
    /\ \E r \in 1..Len(probs.index) : \E a \in 1..Len(spec.alts) : utilities.data[r][a] <= UNAVAIL
    /\ \E r \in 1..Len(probs.index) : probs.data[r][1] # probs.data[r][2]

(***************************************************************************)
(* C13 (amended): for every nest tree whose nodes all have coefficient 1   *)
(* and every row in which some leaf has a non-zero exponentiated utility,  *)
(* the flattened leaf probabilities of the nested path equal the flat MNL  *)
(* probabilities of the same leaf utilities, leaf by leaf (up to the       *)
(* precision of the exponentials).  In a row whose leaf utilities all      *)
(* underflow to a zero exponential the nested path yields probability 0    *)
(* for every leaf, while the MNL probabilities sum to 1.                   *)
(***************************************************************************)
AllCoefficientsOne(ns) == \A j \in 1..Len(ns) : ns[j].coefficient = ROne

\* the precision of probabilities computed from the tabulated exponentials
ProbTol == ExpScale

\* |a - b| <= 1 / ProbTol ; false when either is NaN
RClose(a, b) ==
    /\ a.d # 0 /\ b.d # 0
    /\ LET x == a.n * b.d
           y == b.n * a.d
       IN  (IF x >= y THEN x - y ELSE y - x) <= (a.d * b.d) \div ProbTol

\* probability of alternative nm in row r of a probability frame
ProbOf(pr, r, nm) == pr.data[r][PosOf(pr.columns, nm)]

\* every leaf of row r has a zero exponentiated utility
AllLeavesUnderflow(r) == \A a \in 1..Len(utilities.columns) : Exp(utilities.data[r][a]) = 0

UnitNlProbsReady == pc = "make_choices" /\ nest_spec # NoNest /\ AllCoefficientsOne(nest_spec)

NlProbsReady == pc = "make_choices" /\ nest_spec # NoNest

\* the children of nest nm
Children(ns, nm) == NestNode(ns, nm).alternatives

\* nest nm has a child with non-zero exponentiated utility in row r
HasLiveChild(r, nm) ==
    \E c \in 1..Len(Children(nest_spec, nm)) :
        nested_exp_utilities.data[r][PosOf(nested_exp_utilities.columns, Children(nest_spec, nm)[c])]
            \notin {0, NaN}

EveryNestLive(r) ==
    \A n \in 1..Len(nest_spec) :
        ~is_leaf(nest_spec, nest_spec[n].name) => HasLiveChild(r, nest_spec[n].name)

\* sum of the local probabilities of the children of nest nm in row r
LocalSum(r, nm) ==
    RSum([c \in 1..Len(Children(nest_spec, nm)) |->
             ProbOf(nested_probabilities, r, Children(nest_spec, nm)[c])])

C14_NestedProbabilitiesSumToOne ==
    NlProbsReady =>
        \A r \in 1..Len(probs.index) :
            EveryNestLive(r) =>
                /\ \A n \in 1..Len(nest_spec) :
                      ~is_leaf(nest_spec, nest_spec[n].name) => LocalSum(r, nest_spec[n].name) = ROne
                /\ Range(probs.columns) = Range(spec.alts)
                /\ RSum(probs.data[r]) = ROne
                /\ ~no_choices(probs)[r]

\* a two-level tree with a coefficient below 1 and a row whose leaves all
\* have different, non-zero probabilities
C14_Witness ==
    /\ NlProbsReady
    /\ nest_spec = NestTransit
    /\ \E r \in 1..Len(probs.index) :
          /\ EveryNestLive(r)
          /\ ProbOf(probs, r, "a") # ProbOf(probs, r, "b")
          /\ ProbOf(probs, r, "b") # ProbOf(probs, r, "c")
          /\ \A a \in 1..Len(spec.alts) : RGt(probs.data[r][a], RZero)

(***************************************************************************)
(* C15 (amended): when every child of a nest has a zero exponentiated      *)
(* utility, the nest's own exponentiated utility is zero, every child of   *)
(* the nest gets local probability 0 and every leaf below it gets          *)
(* flattened probability 0, and eval_nl goes on to the sampler.  The "bad  *)
(* probabilities" diagnostic is reported for a row exactly when the root   *)
(* is such a nest (every leaf of the row has probability 0); a degenerate  *)
(* nest beside a live sibling leaves the row's leaf sum at 1 and is not    *)
(* reported.                                                               *)
(***************************************************************************)
Nodes(ns) == {ns[n].name : n \in {m \in 1..Len(ns) : ns[m].alternatives # <<>>}}

\* the leaves below nest nm
LeavesBelow(ns, nm) == {l \in Range(each_nest(ns, "leaf", FALSE)) : nm \in Range(Ancestors(ns, l))}

\* the diagnostic of lines 507-512 has been reported for the current chunk
BadProbsReported == \E j \in 1..Len(log) : log[j].kind = "bad_probs" /\ log[j].chunk = i

\* every child of nest nm has a zero exponentiated utility in row r
DeadNest(r, nm) ==
    \A c \in 1..Len(Children(nest_spec, nm)) :
        nested_exp_utilities.data[r][PosOf(nested_exp_utilities.columns, Children(nest_spec, nm)[c])] = 0

DeadNestHandled(r, nm) ==
    /\ nested_exp_utilities.data[r][PosOf(nested_exp_utilities.columns, nm)] = 0
    /\ \A c \in 1..Len(Children(nest_spec, nm)) :
          ProbOf(nested_probabilities, r, Children(nest_spec, nm)[c]) = RZero
    /\ \A l \in LeavesBelow(nest_spec, nm) : ProbOf(probs, r, l) = RZero

C15_DegenerateNest ==
    NlProbsReady =>
        /\ \A r \in 1..Len(probs.index) :
              /\ \A nm \in Nodes(nest_spec) : DeadNest(r, nm) => DeadNestHandled(r, nm)
              /\ no_choices(probs)[r] <=> (DeadNest(r, nest_spec[1].name) \/ ~FiniteUtilities(r))
        /\ BadProbsReported <=> \E r \in 1..Len(probs.index) : no_choices(probs)[r]

\* a degenerate nest beside a live sibling, not reported
C15_Witness ==
    /\ NlProbsReady
    /\ nest_spec = NestTransit
    /\ \E r \in 1..Len(probs.index) :
          /\ DeadNest(r, "TRANSIT")
          /\ HasLiveChild(r, "root")
          /\ ProbOf(probs, r, "c") = ROne
    /\ ~BadProbsReported

\* the root itself is degenerate, reported
C15_WitnessRoot ==
    /\ NlProbsReady
    /\ \E r \in 1..Len(probs.index) : DeadNest(r, nest_spec[1].name)
    /\ BadProbsReported

\* C15 as stated: every degenerate nest triggers the diagnostic
C15_Original ==
    NlProbsReady =>
        \A r \in 1..Len(probs.index) : \A nm \in Nodes(nest_spec) :
            DeadNest(r, nm) => (DeadNestHandled(r, nm) /\ BadProbsReported)

(***************************************************************************)
(* C16 (amended): when the exponentiated utilities of the siblings of a    *)
(* nest sum to zero, the local probability of every sibling is 0 (zero     *)
(* probabilities are allowed within nests), not 1/(number of siblings).    *)
(***************************************************************************)
\* sum of the exponentiated utilities of the children of nest nm in row r
SiblingSum(r, nm) ==
    FSum([c \in 1..Len(Children(nest_spec, nm)) |->
             nested_exp_utilities.data[r][PosOf(nested_exp_utilities.columns, Children(nest_spec, nm)[c])]])

C16_ZeroSumNestGetsZeroProbabilities ==
    NlProbsReady =>
        \A r \in 1..Len(probs.index) : \A nm \in Nodes(nest_spec) :
            SiblingSum(r, nm) = 0 =>
                \A c \in 1..Len(Children(nest_spec, nm)) :
                    ProbOf(nested_probabilities, r, Children(nest_spec, nm)[c]) = RZero

\* a nest of two siblings whose exponentiated utilities are both zero
C16_Witness ==
    /\ NlProbsReady
    /\ nest_spec = NestAuto
    /\ \E r \in 1..Len(probs.index) :
          /\ SiblingSum(r, "AUTO") = 0
          /\ SiblingSum(r, "root") # 0
          /\ ProbOf(nested_probabilities, r, "a") = RZero
          /\ ProbOf(nested_probabilities, r, "b") = RZero

\* C16 as stated: the siblings of a zero-sum nest get uniform probabilities
C16_Original ==
    NlProbsReady =>
        \A r \in 1..Len(probs.index) : \A nm \in Nodes(nest_spec) :
            SiblingSum(r, nm) = 0 =>
                \A c \in 1..Len(Children(nest_spec, nm)) :
                    ProbOf(nested_probabilities, r, Children(nest_spec, nm)[c])
                        = Rat(1, Len(Children(nest_spec, nm)))

(***************************************************************************)
(* C17: in eval_nl a row is flagged as having bad probabilities exactly    *)
(* when the absolute difference between its flattened leaf-probability sum *)
(* and 1 is strictly greater than 0.001.  Flagging is not fatal: the       *)
(* evaluation goes on and the sampler is invoked on all rows of the chunk, *)
(* the flagged rows included.                                              *)
(***************************************************************************)
\* |sum of row r of frame bp - 1| > 1/1000, the sum taken over the
\* probabilities that are not missing
DeviatesFromOne(bp, r) ==
    LET tot == RSum(SelectSeq(bp.data[r], LAMBDA x : x.d # 0))
    IN  /\ (IF tot.n >= tot.d THEN tot.n - tot.d ELSE tot.d - tot.n) * 1000 > tot.d

\* rows whose sums are 0.999, 1.001, 0.998, 1.002, 1 and 0
ThresholdFrame ==
    [index   |-> <<1, 2, 3, 4, 5, 6>>,
     columns |-> <<"a", "b", "c">>,
     data    |-> <<<<Rat(999, 1000), RZero, RZero>>, <<Rat(1, 1000), ROne, RZero>>,
                   <<Rat(499, 1000), Rat(499, 1000), RZero>>, <<ROne, Rat(2, 1000), RZero>>,
                   <<Rat(1, 2), Rat(1, 4), Rat(1, 4)>>, <<RZero, RZero, RZero>>>>]

\* the rows the diagnostic of the current chunk counts
ReportedRows ==
    IF BadProbsReported
    THEN log[CHOOSE j \in 1..Len(log) : log[j].kind = "bad_probs" /\ log[j].chunk = i].item
    ELSE 0

\* the sampler has been invoked on every row of the probabilities
SamplerInvokedOnAllRows == [r \in 1..Len(rands) |-> rands[r].key] = probs.index

C17_BadProbabilitiesNotFatal ==
    /\ NlProbsReady =>
          /\ no_choices(ThresholdFrame) = <<FALSE, FALSE, TRUE, TRUE, FALSE, TRUE>>
          /\ \A r \in 1..Len(probs.index) : no_choices(probs)[r] <=> DeviatesFromOne(probs, r)
          /\ ReportedRows = Cardinality({r \in 1..Len(probs.index) : DeviatesFromOne(probs, r)})
    /\ (nest_spec # NoNest /\ ~logsums_mode /\ pc = "append") =>
          /\ SamplerInvokedOnAllRows
          /\ [r \in 1..Len(choices) |-> choices[r].key] = probs.index
    /\ (nest_spec # NoNest /\ pc = "raised" /\ BadProbsReported) =>
          /\ SamplerInvokedOnAllRows
          /\ make_choices_fails(probs, rands)

\* a chunk of a flagged and an unflagged row, handed to the sampler, which fails
C17_Witness ==
    /\ pc = "raised"
    /\ nest_spec # NoNest
    /\ probs # NoFrame
    /\ Len(probs.index) >= 2
    /\ ReportedRows = 1
    /\ \E r \in 1..Len(probs.index) : ~DeviatesFromOne(probs, r)
    /\ SamplerInvokedOnAllRows
    /\ log[Len(log)] = [kind |-> "exception", chunk |-> i, item |-> 0]

(***************************************************************************)
(* C18: simple_simulate_logsums returns one numeric logsum per entity: the *)
(* log of the sum of the exponentiated utilities in flat mode, the log of  *)
(* the root's exponentiated utility in nested mode.  It never invokes the  *)
(* sampler and takes no draw, so the random streams are in the same state  *)
(* after the call as before.                                               *)
(***************************************************************************)
\* log of the sum of the exponentiated utilities of row r
FlatLogsum(r) == Log(FSum([a \in 1..Len(utilities.columns) |-> Exp(utilities.data[r][a])]))

RootLogsum(r) == Log(nested_exp_utilities.data[r][PosOf(nested_exp_utilities.columns, nest_spec[1].name)])

C18_LogsumsWithoutDraws ==
    logsums_mode =>
        /\ rng_offset = FreshStreams
        /\ rands = <<>> /\ rands_list = <<>>
        /\ pc # "make_choices"
        /\ pc = "append" =>
              /\ [r \in 1..Len(choices) |-> choices[r].key] = Index(chooser_chunk)
              /\ \A r \in 1..Len(choices) :
                    choices[r].v = IF nest_spec = NoNest THEN FlatLogsum(r) ELSE RootLogsum(r)
              /\ (nest_spec # NoNest /\ AllCoefficientsOne(nest_spec)) =>
                    \A r \in 1..Len(choices) : choices[r].v = FlatLogsum(r)
        /\ pc = "returned" =>
              /\ [j \in 1..Len(result) |-> result[j].key] = Index(choosers)
              /\ \A j \in 1..Len(result) : result[j].v \in Int

\* a nested logsum call over three entities in more than one chunk has returned
C18_Witness ==
    /\ logsums_mode
    /\ pc = "returned"
    /\ nest_spec = NestTransit
    /\ Len(choosers) = 3
    /\ i >= 2
    /\ \E j, k \in 1..Len(result) : result[j].v # result[k].v /\ result[j].v # NegInf

(***************************************************************************)
(* SpecScenario: eval_mnl from the utilities on, for a single entity with  *)
(* three alternatives: the utilities and the draw are inputs.              *)
(***************************************************************************)
ScenarioUtilities == [1..3 -> -1..1]

ScenarioDraws == {Rat(k, 10) : k \in 0..9}

InitScenario ==
    /\ choosers = <<Row(1)>>
    /\ spec = SpecBasic
    /\ nest_spec = NoNest
    /\ skims = <<>>
    /\ locals_d = LocalsD
    /\ chunk_size = 0
    /\ seed = 0
    /\ logsums_mode = FALSE
    /\ check_for_variability = FALSE
    /\ global_rng = 0
    /\ omnibus_spec = <<>>
    /\ segment = ""
    /\ tours = <<>>
    /\ pc = "compute"
    /\ rows_per_chunk = 1
    /\ offset = 1
    /\ i = 1
    /\ chooser_chunk = choosers
    /\ skim_df = FreshSkimDf
    /\ expr_i = 0
    /\ value_list = <<>>
    /\ expression_values = NoFrame
    /\ \E u \in ScenarioUtilities :
          utilities = [index |-> <<1>>, columns |-> <<"a", "b", "c">>, data |-> <<u>>]
    /\ nested_exp_utilities = NoFrame
    /\ nested_probabilities = NoFrame
    /\ probs = NoFrame
    /\ choices = <<>>
    /\ \E d \in ScenarioDraws : rands = <<[key |-> 1, v |-> d]>>
    /\ result_list = <<>>
    /\ result = <<>>
    /\ log = <<>>
    /\ rng_offset = FreshStreams
    /\ chunk_log = <<>>
    /\ rands_list = <<>>
    /\ par_pc = <<>>
    /\ par_bound = <<>>
    /\ par_out = <<>>

\* mutant: the shares are those of the utilities above the smallest, not of
\* their exponentials
ScenarioProbs_linear_shares ==
    /\ pc = "compute"
    /\ probs' = [index |-> utilities.index, columns |-> utilities.columns,
                 data  |-> [r \in 1..Len(utilities.index) |->
                              [a \in 1..Len(utilities.columns) |->
                                 Rat(utilities.data[r][a] + 2,
                                     SumSeq([b \in 1..Len(utilities.columns) |-> utilities.data[r][b] + 2]))]]]
    /\ pc' = "make_choices"
    /\ UNCHANGED <<inputs, step_vars, locals_d, par_vars, global_rng, rows_per_chunk, offset, i, chooser_chunk, skim_df,
                   expr_i, value_list, expression_values, utilities,
                   nested_exp_utilities, nested_probabilities, choices, rands,
                   result_list, result, log, rng_offset, chunk_log, rands_list>>

\* eval_mnl line 406
ScenarioProbs ==
    /\ pc = "compute"
    /\ probs' = utils_to_probs(utilities)
    /\ pc' = "make_choices"
    /\ UNCHANGED <<inputs, step_vars, locals_d, par_vars, global_rng, rows_per_chunk, offset, i, chooser_chunk, skim_df,
                   expr_i, value_list, expression_values, utilities,
                   nested_exp_utilities, nested_probabilities, choices, rands,
                   result_list, result, log, rng_offset, chunk_log, rands_list>>

\* eval_mnl line 409, with the given draw
ScenarioChoose ==
    /\ pc = "make_choices"
    /\ IF make_choices_fails(probs, rands)
       THEN pc' = "raised" /\ UNCHANGED choices
       ELSE pc' = "append" /\ choices' = make_choices(probs, rands)
    /\ UNCHANGED <<inputs, step_vars, locals_d, par_vars, global_rng, rows_per_chunk, offset, i, chooser_chunk, skim_df,
                   expr_i, value_list, expression_values, utilities,
                   nested_exp_utilities, nested_probabilities, probs, rands,
                   result_list, result, log, rng_offset, chunk_log, rands_list>>

NextScenario ==
    \/ ScenarioProbs
    \/ ScenarioChoose

SpecScenario == InitScenario /\ [][NextScenario]_vars

\* |a - b| <= 1 / t ; false when either is NaN
RWithin(a, b, t) ==
    /\ a.d # 0 /\ b.d # 0
    /\ LET x == a.n * b.d
           y == b.n * a.d
       IN  (IF x >= y THEN x - y ELSE y - x) <= (a.d * b.d) \div t

\* the scenario's entity: utilities [1.0, 0.0, -1.0] and draw 0.1, sampled
TheScenario ==
    /\ pc = "append"
    /\ utilities.data = <<<<1, 0, -1>>>>
    /\ rands[1].v = Rat(1, 10)

\* row 1 of probs is p within 1/t, column by column
ProbsAbout(p, t) == \A a \in 1..3 : RWithin(probs.data[1][a], Rat(p[a], 1000), t)

(***************************************************************************)
(* C19 (amended): for a single entity with 3 alternatives and utilities    *)
(* [1.0, 0.0, -1.0] the MNL probabilities are [0.665, 0.245, 0.090] to     *)
(* three decimals, and they sum to 1; with a draw of 0.1 the sampler       *)
(* chooses alternative 0.                                                  *)
(***************************************************************************)
C19_ConcreteScenario ==
    TheScenario =>
        /\ ProbsAbout(<<665, 245, 90>>, 1000)
        /\ RSum(probs.data[1]) = ROne
        /\ choices = <<[key |-> 1, v |-> 0]>>

C19_Witness ==
    /\ TheScenario
    /\ choices[1].v = 0
    /\ RGt(probs.data[1][1], probs.data[1][2]) /\ RGt(probs.data[1][2], probs.data[1][3])

\* C19 as stated: probabilities about [0.576, 0.212, 0.078] (to two decimals)
C19_Original ==
    TheScenario =>
        /\ ProbsAbout(<<576, 212, 78>>, 100)
        /\ choices = <<[key |-> 1, v |-> 0]>>


(***************************************************************************)
(* C20: the variability check is informational only: with the check        *)
(* enabled, the expression values, draws and choices of every chunk, and   *)
(* whether the call raises, are those of the same chunk evaluated without  *)
(* the check; a logsums call, which has no sampler, raises only when an    *)
(* expression fails.                                                       *)
(***************************************************************************)
\* the current chunk evaluated without the check
Unchecked == ChunkRun(chooser_chunk)

\* the check has met a missing value in the current chunk and raised
\* (an expression or the sampler that fails logs its exception first)
CheckRaised ==
    /\ pc = "raised"
    /\ check_for_variability
    /\ \A j \in 1..Len(log) : ~(log[j].kind = "exception" /\ log[j].chunk = i)

SameAsUnchecked ==
    /\ pc \in {"compute", "make_choices", "append"} => expression_values = Unchecked.values
    /\ (pc = "append" /\ ~logsums_mode) =>
          /\ ~Unchecked.raised
          /\ choices = Unchecked.choices
          /\ rands = Unchecked.rands
    /\ (pc = "raised" /\ ~logsums_mode) =>
          /\ Unchecked.raised
          /\ rands = Unchecked.rands
    /\ (pc = "raised" /\ logsums_mode) => FailingExprs # {}

C20_Original == check_for_variability => SameAsUnchecked

\* C20 where it holds: as long as the check meets no missing value, the
\* outcome of the chunk is that of the chunk evaluated without the check,
\* and rows are sampled with the global generator only
C20_InformationalUnlessMissing ==
    /\ (check_for_variability /\ ~CheckRaised) => SameAsUnchecked
    /\ CheckRaised => \E r \in 1..Len(expression_values.index) : NaN \in Range(expression_values.data[r])
    /\ ~check_for_variability => global_rng = 0

\* a chunk of more rows than the check looks at, sampled and evaluated
C20_WitnessSampled ==
    /\ check_for_variability
    /\ global_rng = 1
    /\ pc = "append"
    /\ ~logsums_mode
    /\ \E a, b \in 1..Len(choices) : choices[a].v # choices[b].v


(***************************************************************************)
(* SpecNest: the loop of compute_nested_exp_utilities (lines 255-279) on   *)
(* one row of raw utilities, one nest per step.  nested_exp_utilities is   *)
(* the frame under construction; reading the column of a nest that has not *)
(* been written yet raises KeyError.                                       *)
(***************************************************************************)
NestUtilities == [1..3 -> {UNAVAIL, 0, 1}]

InitNest ==
    /\ choosers = <<Row(1)>>
    /\ spec = SpecBasic
    /\ nest_spec \in NestSpecs \ {NoNest}
    /\ skims = <<>>
    /\ locals_d = LocalsD
    /\ chunk_size = 0
    /\ seed = 0
    /\ logsums_mode = FALSE
    /\ check_for_variability = FALSE
    /\ global_rng = 0
    /\ omnibus_spec = <<>>
    /\ segment = ""
    /\ tours = <<>>
    /\ pc = "nest_loop"
    /\ rows_per_chunk = 1
    /\ offset = 1
    /\ i = 1
    /\ chooser_chunk = choosers
    /\ skim_df = FreshSkimDf
    /\ expr_i = 0
    /\ value_list = <<>>
    /\ expression_values = NoFrame
    /\ \E u \in NestUtilities :
          utilities = [index |-> <<1>>, columns |-> <<"a", "b", "c">>, data |-> <<u>>]
    /\ nested_exp_utilities = [index |-> <<1>>, columns |-> <<>>, data |-> <<<<>>>>]
    /\ nested_probabilities = NoFrame
    /\ probs = NoFrame
    /\ choices = <<>>
    /\ rands = <<>>
    /\ result_list = <<>>
    /\ result = <<>>
    /\ log = <<>>
    /\ rng_offset = FreshStreams
    /\ chunk_log = <<>>
    /\ rands_list = <<>>
    /\ par_pc = <<>>
    /\ par_bound = <<>>
    /\ par_out = <<>>

\* the nest of the next iteration
NextNest == nest_visit_order(nest_spec)[Len(nested_exp_utilities.columns) + 1]

\* nested_utilities[nest.alternatives] of line 274 finds every column
AlternativesComputed(nm) ==
    Range(NestNode(nest_spec, nm).alternatives) \subseteq Range(nested_exp_utilities.columns)

\* one iteration of the loop, lines 257-277
NestStep ==
    /\ pc = "nest_loop"
    /\ Len(nested_exp_utilities.columns) < Len(nest_visit_order(nest_spec))
    /\ IF AlternativesComputed(NextNest)
       THEN /\ nested_exp_utilities' =
                  [nested_exp_utilities EXCEPT
                     !.columns = Append(@, NextNest),
                     !.data = <<Append(@[1],
                                  nested_exp_utility(nest_spec,
                                                     Append(nested_exp_utilities.columns, NextNest),
                                                     Len(nested_exp_utilities.columns) + 1,
                                                     @[1], utilities.data[1], utilities.columns))>>]
            /\ pc' = "nest_loop"
       ELSE /\ pc' = "raised"
            /\ UNCHANGED nested_exp_utilities
    /\ UNCHANGED <<inputs, step_vars, locals_d, par_vars, global_rng, rows_per_chunk, offset, i, chooser_chunk, skim_df,
                   expr_i, value_list, expression_values, utilities, nested_probabilities,
                   probs, choices, rands,
                   result_list, result, log, rng_offset, chunk_log, rands_list>>

\* return nested_utilities, line 279
NestReturn ==
    /\ pc = "nest_loop"
    /\ Len(nested_exp_utilities.columns) = Len(nest_visit_order(nest_spec))
    /\ pc' = "nest_done"
    /\ UNCHANGED <<inputs, step_vars, locals_d, par_vars, global_rng, rows_per_chunk, offset, i, chooser_chunk, skim_df,
                   chunk_vars, result_list, result, log, rng_offset, chunk_log, rands_list>>

NextNestLoop ==
    \/ NestStep
    \/ NestReturn

SpecNest == InitNest /\ [][NextNestLoop]_vars

(***************************************************************************)
(* C21: compute_nested_exp_utilities visits the nest tree in post-order:   *)
(* the loop never reads a column that has not been written, every          *)
(* internal node's column comes after the columns of all its children,     *)
(* its value is computed from them, and at the end every leaf and node of  *)
(* the tree has exactly one column.                                        *)
(***************************************************************************)
\* the names of the tree
NestNames(ns) == {ns[n].name : n \in 1..Len(ns)}

C21_PostOrder ==
    LET cols == nested_exp_utilities.columns
    IN  /\ pc # "raised"
        /\ \A k, h \in 1..Len(cols) : cols[k] = cols[h] => k = h
        /\ Range(cols) \subseteq NestNames(nest_spec)
        /\ \A k \in 1..Len(cols) :
              ~is_leaf(nest_spec, cols[k]) =>
                 /\ \A c \in Range(NestNode(nest_spec, cols[k]).alternatives) :
                       c \in Range(cols) /\ PosOf(cols, c) < k
                 /\ nested_exp_utilities.data[1][k] =
                       nest_exp(NestNode(nest_spec, cols[k]).coefficient,
                                FSum([c \in 1..Len(NestNode(nest_spec, cols[k]).alternatives) |->
                                        nested_exp_utilities.data[1][
                                           PosOf(cols, NestNode(nest_spec, cols[k]).alternatives[c])]]))
        /\ pc = "nest_done" =>
              /\ Range(cols) = NestNames(nest_spec)
              /\ Len(cols) = count_nests(nest_spec)
              /\ nested_exp_utilities = compute_nested_exp_utilities(utilities, nest_spec)

\* a two-level tree, all columns written, the inner nest with a live child
C21_Witness ==
    /\ pc = "nest_done"
    /\ nest_spec = NestTransit
    /\ nested_exp_utilities.data[1][PosOf(nested_exp_utilities.columns, "TRANSIT")] > 0
    /\ nested_exp_utilities.data[1][PosOf(nested_exp_utilities.columns, "root")]
          > nested_exp_utilities.data[1][PosOf(nested_exp_utilities.columns, "TRANSIT")]


(***************************************************************************)
(* C22: compute_base_probabilities gives every leaf of the nest tree       *)
(* exactly one column, and no column to a node that is not a leaf; the     *)
(* value of a leaf's column is the product of the local probabilities of   *)
(* the nests on its chain from the child of the root down to the leaf      *)
(* itself (missing probabilities skipped, as the frame's product does),    *)
(* the root contributing no factor.                                        *)
(***************************************************************************)
\* the nest that has nm among its alternatives
Parent(ns, nm) == ns[CHOOSE j \in 1..Len(ns) : nm \in Range(ns[j].alternatives)].name

\* product of the local probabilities of row r from nest nm up to the child
\* of the root
RECURSIVE ChainProduct(_, _)
ChainProduct(r, nm) ==
    IF nm = nest_spec[1].name THEN ROne
    ELSE LET p == ProbOf(nested_probabilities, r, nm)
         IN  RMul(IF RIsNaN(p) THEN ROne ELSE p, ChainProduct(r, Parent(nest_spec, nm)))

C22_BaseProbabilitiesAreChainProducts ==
    NlProbsReady =>
        /\ \A a, b \in 1..Len(probs.columns) : probs.columns[a] = probs.columns[b] => a = b
        /\ Range(probs.columns) = {nm \in NestNames(nest_spec) : is_leaf(nest_spec, nm)}
        /\ \A r \in 1..Len(probs.index) : \A l \in 1..Len(probs.columns) :
              /\ Len(probs.data[r]) = Len(probs.columns)
              /\ probs.data[r][l] = ChainProduct(r, probs.columns[l])

\* a two-level tree and a row in which a leaf's probability is the product
\* of two proper fractions
C22_Witness ==
    /\ NlProbsReady
    /\ nest_spec = NestTransit
    /\ \E r \in 1..Len(probs.index) :
          /\ RGt(ProbOf(nested_probabilities, r, "TRANSIT"), RZero)
          /\ RGt(ROne, ProbOf(nested_probabilities, r, "TRANSIT"))
          /\ RGt(ROne, ProbOf(nested_probabilities, r, "a"))
          /\ RGt(ProbOf(nested_probabilities, r, "a"), RZero)
          /\ ProbOf(probs, r, "a") = RMul(ProbOf(nested_probabilities, r, "TRANSIT"),
                                           ProbOf(nested_probabilities, r, "a"))


(***************************************************************************)
(* C23: when lookup providers are passed, every provider of the list is    *)
(* bound to the current chunk's table before the first expression of the   *)
(* chunk is evaluated and stays so while the chunk is processed: at every  *)
(* expression evaluation the rows of each provider are the rows of the     *)
(* chunk, and the values looked up are one per row of the chunk.           *)
(***************************************************************************)
InChunk == pc \in {"eval_variables", "check_for_variability", "compute", "make_choices", "append"}

C23_ProvidersBoundToCurrentChunk ==
    (skims # <<>> /\ InChunk) =>
        /\ \A w \in Range(skims) : skim_df[w] = chooser_chunk
        /\ \A e \in 1..Len(value_list) :
              [j \in 1..Len(value_list[e].values) |-> value_list[e].values[j].key]
                  = Index(chooser_chunk)

\* the second chunk of a call with two providers, after a lookup in each
C23_Witness ==
    /\ skims = <<1, 2>>
    /\ spec = SpecSkim
    /\ pc = "eval_variables"
    /\ i = 2
    /\ Len(value_list) = 3
    /\ chooser_chunk # chunked_choosers(choosers, rows_per_chunk, 0)


(***************************************************************************)
(* C24: no step of a simple_simulate call changes its inputs: the chooser  *)
(* table, the Spec and the nest tree stay as they are, and the dictionary  *)
(* the caller passed as locals_d keeps exactly its keys and values, for    *)
(* every chunk (eval_variables updates a copy).                            *)
(***************************************************************************)
InputsKept ==
    /\ choosers' = choosers
    /\ spec' = spec
    /\ nest_spec' = nest_spec
    /\ locals_d' = locals_d

C28_DfDenotesCurrentChunk ==
    InChunk =>
        LET env == eval_variables_dicts(locals_d, chooser_chunk).env
        IN  /\ env["df"] = [t |-> "table", v |-> chooser_chunk]
            /\ \A k \in (DOMAIN locals_d) \ EvalParameters : env[k] = locals_d[k]
            /\ \A e \in 1..Len(value_list) :
                  (spec.exprs[e].at /\ spec.exprs[e].body \in DOMAIN locals_d) =>
                     /\ locals_d[spec.exprs[e].body].t = "where" =>
                           value_list[e].values
                              = where_nonzero(locals_d[spec.exprs[e].body].v, chooser_chunk)
                     /\ locals_d[spec.exprs[e].body].t = "scalar" =>
                           value_list[e].values
                              = [j \in 1..Len(chooser_chunk) |->
                                    [key |-> chooser_chunk[j].key, v |-> locals_d[spec.exprs[e].body].v]]

\* the second chunk of a call whose caller keeps another table under df: an
\* expression over df has been evaluated on the rows of the chunk
C28_Witness ==
    /\ pc = "check_for_variability"
    /\ i = 2
    /\ "df" \in DOMAIN locals_d
    /\ locals_d["df"].v # chooser_chunk
    /\ \E e \in 1..Len(value_list) :
          /\ spec.exprs[e] = EnvExpr("m")
          /\ Len(value_list[e].values) = Len(chooser_chunk)
          /\ value_list[e].values[1] = [key |-> chooser_chunk[1].key, v |-> NaN]


(***************************************************************************)
(* C25 (amended): each kind of aggregated diagnostic (the warning that     *)
(* columns have no variability, the bad nested-logit probabilities) is     *)
(* reported at most once per chunk, with a count over the columns or rows  *)
(* of that chunk; a call split into several chunks reports columns without *)
(* variability up to once for each of them, and bad probabilities at most  *)
(* once, in the chunk at which the sampler then fails.                     *)
(***************************************************************************)
AggregatedKinds == {"warn_no_variability", "bad_probs"}

\* the reports of kind k, and those of them made for chunk c
Reports(k) == {j \in 1..Len(log) : log[j].kind = k}

ReportsOfChunk(k, c) == {j \in Reports(k) : log[j].chunk = c}

C25_DiagnosticsOncePerChunk ==
    /\ Cardinality(Reports("bad_probs")) <= 1
    /\ \A k \in AggregatedKinds :
          /\ \A c \in 1..MaxChoosers : Cardinality(ReportsOfChunk(k, c)) <= 1
          /\ \A j \in Reports(k) :
                /\ log[j].chunk \in 1..i
                /\ log[j].item >= 1
                /\ log[j].item <= (IF k = "bad_probs" THEN rows_per_chunk ELSE Len(spec.exprs))

\* a call of three chunks that has reported columns without variability for
\* each of them
C25_Witness ==
    /\ pc = "returned"
    /\ i = 3
    /\ Cardinality(Reports("warn_no_variability")) = 3

\* C25 as stated: each kind of diagnostic is reported at most once per call
C25_Original == \A k \in AggregatedKinds : Cardinality(Reports(k)) <= 1


(***************************************************************************)
(* C26: in nested mode, the alternative name the caller gets by decoding   *)
(* the integer returned for a chooser as a position in the Spec's columns  *)
(* is the name of the leaf column the sampler selected in the flattened    *)
(* leaf-probability matrix.                                                *)
(***************************************************************************)
\* mode_choice.py 69-70 / joint_tour_frequency.py 99: spec.columns[choice]
decode_choice(v, alts) == alts[v + 1]

\* the leaf column the sampler selected for row r of the current chunk
SelectedLeaf(r) == probs.columns[choices[r].v + 1]

NlChoicesMade == pc = "append" /\ ~logsums_mode /\ nest_spec # NoNest

C26_Original ==
    NlChoicesMade =>
        \A r \in 1..Len(choices) : decode_choice(choices[r].v, spec.alts) = SelectedLeaf(r)

\* C26 where it holds: when the leaves of the tree, in the order the tree
\* lists them, are the columns of the Spec in the Spec's order
C26_DecodedWhenOrdersAgree ==
    (NlChoicesMade /\ each_nest(nest_spec, "leaf", FALSE) = spec.alts) =>
        \A r \in 1..Len(choices) : decode_choice(choices[r].v, spec.alts) = SelectedLeaf(r)

\* a chooser for whom the sampler selected leaf c, decoded as a
C26_MisdecodedChoice ==
    /\ NlChoicesMade
    /\ nest_spec = NestTransit
    /\ \E r \in 1..Len(choices) :
          /\ SelectedLeaf(r) = "c"
          /\ decode_choice(choices[r].v, spec.alts) = "a"


(***************************************************************************)
(* A call that follows an earlier one made with the same providers         *)
(* (tour_mode_choice_simulate, mode_choice.py 255-279, makes one call per  *)
(* segment with the same wrappers): when the call starts the providers are *)
(* bound to the last chunk of the earlier call.  The Spec's expressions    *)
(* are provider lookups only; the providers are passed as skims or not.    *)
(***************************************************************************)
SpecProviders == [exprs |-> <<EnvExpr("od_skims"), EnvExpr("dot_skims")>>,
                  alts  |-> <<"a", "b", "c">>,
                  coef  |-> <<<<1, 0, 0>>, <<0, 1, 0>>>>]

\* the last chunk of the earlier call: a row of the same table
EarlierChunks == {<<Row(k)>> : k \in Keys}

InitReuse ==
    /\ choosers \in ChooserTables
    /\ spec = SpecProviders
    /\ nest_spec \in {NoNest, NestFlat}
    /\ skims \in SkimArgs
    /\ locals_d = LocalsD
    /\ chunk_size \in {0, 5}
    /\ seed = 0
    /\ logsums_mode \in BOOLEAN
    /\ check_for_variability = FALSE
    /\ global_rng = 0
    /\ omnibus_spec = <<>>
    /\ segment = ""
    /\ tours = <<>>
    /\ pc = "start"
    /\ rows_per_chunk = 0
    /\ offset = 0
    /\ i = 0
    /\ chooser_chunk = <<>>
    /\ \E df \in EarlierChunks : skim_df = [w \in SkimWrappers |-> df]
    /\ expr_i = 0
    /\ value_list = <<>>
    /\ expression_values = NoFrame
    /\ utilities = NoFrame
    /\ nested_exp_utilities = NoFrame
    /\ nested_probabilities = NoFrame
    /\ probs = NoFrame
    /\ choices = <<>>
    /\ rands = <<>>
    /\ result_list = <<>>
    /\ result = <<>>
    /\ log = <<>>
    /\ rng_offset = FreshStreams
    /\ chunk_log = <<>>
    /\ rands_list = <<>>
    /\ par_pc = <<>>
    /\ par_bound = <<>>
    /\ par_out = <<>>

SpecReuse == InitReuse /\ [][Next]_vars

(***************************************************************************)
(* C27: simple_simulate and simple_simulate_logsums never return a result  *)
(* whose number of entries differs from the number of input entities: the  *)
(* final assertion fails whenever the accumulated result has another       *)
(* length than the chooser table.                                          *)
(***************************************************************************)
C27_Original == pc = "returned" => Len(result) = Len(choosers)

\* what the assertion as written ensures: a returned result is not empty
C27_ReturnedNotEmpty == pc = "returned" => Len(result) # 0


(***************************************************************************)
(* get_segment_and_unstack (mode_choice.py 75-91)                          *)
(* The omnibus spec has one row per (Expression, Rowid, Alternative) and   *)
(* one column of coefficients per segment; an empty cell is missing.       *)
(***************************************************************************)
Segments == <<"work", "school">>

\* the expressions of the omnibus rows, in the sort order of their strings
OmnibusExprs == <<EnvExpr("c"), TableExpr("x")>>

\* the alternatives, in sort order
OmnibusAlts == <<"a", "b">>

\* the greatest Rowid
MaxOmnibusRows == 2

\* the cell of segment work for one alternative of a Rowid: no row for the
\* alternative, an empty cell, or a coefficient
OmnibusCells == {<<>>, <<NaN>>, <<1>>}

OmnibusRowids(n) ==
    [1..n -> [Expression : Range(OmnibusExprs), cells : [1..Len(OmnibusAlts) -> OmnibusCells]]]

\* the rows of the table, by Rowid and alternative
omnibus_rows(f) ==
    Flatten([k \in 1..(Len(f) * Len(OmnibusAlts)) |->
               LET id == ((k - 1) \div Len(OmnibusAlts)) + 1
                   a  == ((k - 1) % Len(OmnibusAlts)) + 1
               IN  IF f[id].cells[a] = <<>> THEN <<>>
                   ELSE <<[Expression  |-> f[id].Expression,
                           Rowid       |-> id,
                           Alternative |-> OmnibusAlts[a],
                           work        |-> f[id].cells[a][1],
                           school      |-> 2]>>])

OmnibusSpecs ==
    {t \in UNION {{omnibus_rows(f) : f \in OmnibusRowids(n)} : n \in 1..MaxOmnibusRows} : t # <<>>}

\* the (Expression, Rowid) pairs in sort order
SortedRowLabels ==
    [k \in 1..(Len(OmnibusExprs) * MaxOmnibusRows) |->
        [Expression |-> OmnibusExprs[((k - 1) \div MaxOmnibusRows) + 1],
         Rowid      |-> ((k - 1) % MaxOmnibusRows) + 1]]

\* Series.unstack(): the last index level, Alternative, becomes the columns;
\* rows and columns are the sorted labels that occur, a cell without a row
\* is missing
unstack(ser) ==
    LET rows == SelectSeq(SortedRowLabels,
                          LAMBDA l : \E j \in 1..Len(ser) :
                                        ser[j].Expression = l.Expression /\ ser[j].Rowid = l.Rowid)
        cols == SelectSeq(OmnibusAlts, LAMBDA a : \E j \in 1..Len(ser) : ser[j].Alternative = a)
        cell(l, a) == LET J == {j \in 1..Len(ser) : /\ ser[j].Expression = l.Expression
                                                     /\ ser[j].Rowid = l.Rowid
                                                     /\ ser[j].Alternative = a}
                      IN  IF J = {} THEN NaN ELSE ser[CHOOSE j \in J : TRUE].v
    IN  [index   |-> rows,
         columns |-> cols,
         data    |-> [r \in 1..Len(rows) |-> [c \in 1..Len(cols) |-> cell(rows[r], cols[c])]]]

\* reset_index(level="Rowid", drop=True)
reset_index_drop_rowid(fr) ==
    [fr EXCEPT !.index = [r \in 1..Len(fr.index) |-> fr.index[r].Expression]]

fillna(fr, v) ==
    [fr EXCEPT !.data = [r \in 1..Len(fr.data) |->
                           [c \in 1..Len(fr.columns) |-> IF fr.data[r][c] = NaN THEN v ELSE fr.data[r][c]]]]

\* mutant: each group keeps the coefficients of its first row
groupby_index_first(fr) ==
    LET keys == SelectSeq(OmnibusExprs, LAMBDA e : e \in Range(fr.index))
    IN  [index   |-> keys,
         columns |-> fr.columns,
         data    |-> [g \in 1..Len(keys) |-> fr.data[PosOf(fr.index, keys[g])]]]

\* spec.groupby(spec.index).sum(): one row per label, in sort order
groupby_index_sum(fr) ==
    LET keys == SelectSeq(OmnibusExprs, LAMBDA e : e \in Range(fr.index))
    IN  [index   |-> keys,
         columns |-> fr.columns,
         data    |-> [g \in 1..Len(keys) |->
                        [c \in 1..Len(fr.columns) |->
                           SumSeq([r \in 1..Len(fr.index) |->
                                     IF fr.index[r] = keys[g] /\ fr.data[r][c] # NaN
                                     THEN fr.data[r][c] ELSE 0])]]]

\* omnibus_spec[segment]
segment_column(om, seg) ==
    [j \in 1..Len(om) |-> [Expression |-> om[j].Expression, Rowid |-> om[j].Rowid,
                           Alternative |-> om[j].Alternative, v |-> om[j][seg]]]

\* lines 87-91
get_segment_and_unstack(om, seg) ==
    LET fr == groupby_index_sum(fillna(reset_index_drop_rowid(unstack(segment_column(om, seg))), 0))
    IN  [exprs |-> fr.index, alts |-> fr.columns, coef |-> fr.data]

\* the segment's Spec is built and handed to simple_simulate (mode_choice.py
\* 168-181, 253-270, 59-67): two entities, the multinomial model, one chunk
InitUnstack ==
    /\ choosers = <<Row(1), Row(2)>>
    /\ spec = [exprs |-> <<>>, alts |-> <<>>, coef |-> <<>>]
    /\ nest_spec = NoNest
    /\ skims = <<>>
    /\ locals_d = LocalsD
    /\ chunk_size = 0
    /\ seed = 0
    /\ logsums_mode = FALSE
    /\ check_for_variability = FALSE
    /\ global_rng = 0
    /\ omnibus_spec \in OmnibusSpecs
    /\ segment \in Range(Segments)
    /\ tours = <<>>
    /\ pc = "get_segment_and_unstack"
    /\ rows_per_chunk = 0
    /\ offset = 0
    /\ i = 0
    /\ chooser_chunk = <<>>
    /\ skim_df = FreshSkimDf
    /\ expr_i = 0
    /\ value_list = <<>>
    /\ expression_values = NoFrame
    /\ utilities = NoFrame
    /\ nested_exp_utilities = NoFrame
    /\ nested_probabilities = NoFrame
    /\ probs = NoFrame
    /\ choices = <<>>
    /\ rands = <<>>
    /\ result_list = <<>>
    /\ result = <<>>
    /\ log = <<>>
    /\ rng_offset = FreshStreams
    /\ chunk_log = <<>>
    /\ rands_list = <<>>
    /\ par_pc = <<>>
    /\ par_bound = <<>>
    /\ par_out = <<>>

\* mode_choice.py 168 / 253: spec = get_segment_and_unstack(tour_mode_choice_spec, segment)
GetSegmentAndUnstack ==
    /\ pc = "get_segment_and_unstack"
    /\ spec' = get_segment_and_unstack(omnibus_spec, segment)
    /\ pc' = "start"
    /\ UNCHANGED <<choosers, nest_spec, skims, chunk_size, seed, logsums_mode, check_for_variability,
                   step_vars, locals_d, par_vars, global_rng, rows_per_chunk, offset, i, chooser_chunk,
                   skim_df, chunk_vars, result_list, result, log, rng_offset, chunk_log, rands_list>>

NextUnstack ==
    \/ GetSegmentAndUnstack
    \/ Start
    \/ NextChunk
    \/ AddSkims
    \/ EvalExpr
    \/ EvalReturn
    \/ CheckForVariability
    \/ ComputeMnl

SpecUnstack == InitUnstack /\ [][NextUnstack]_vars

\* the coefficient of an omnibus row for the segment, an empty cell counting as 0
RowCoefficient(row, seg) == IF row[seg] = NaN THEN 0 ELSE row[seg]

\* the sum of the coefficients of the omnibus rows with expression e and alternative a
SummedCoefficient(e, a) ==
    SumSeq([j \in 1..Len(omnibus_spec) |->
              IF omnibus_spec[j].Expression = e /\ omnibus_spec[j].Alternative = a
              THEN RowCoefficient(omnibus_spec[j], segment) ELSE 0])

\* the value of expression e for the entity of row r of the chunk
ExprValue(e, r) == eval_expr(e, chooser_chunk, locals_d, skim_df).values[r].v

\* the utility of alternative a for row r, one term per omnibus row
UnmergedUtility(r, a) ==
    FSum([j \in 1..Len(omnibus_spec) |->
            IF omnibus_spec[j].Alternative = a
            THEN FMul(ExprValue(omnibus_spec[j].Expression, r), RowCoefficient(omnibus_spec[j], segment))
            ELSE 0])

Unstacked == omnibus_spec # <<>> /\ pc # "get_segment_and_unstack"

(***************************************************************************)
(* C29: get_segment_and_unstack returns a Spec whose expression index is   *)
(* unique, each coefficient being the sum of the coefficients of all       *)
(* omnibus rows with that expression and the given segment (absent         *)
(* coefficients counting as 0); the utilities computed from the merged     *)
(* Spec equal, for every entity and alternative, the utilities computed    *)
(* from the unmerged rows.                                                 *)
(***************************************************************************)
C29_MergedSpec ==
    Unstacked =>
        /\ \A x, y \in 1..Len(spec.exprs) : spec.exprs[x] = spec.exprs[y] => x = y
        /\ Range(spec.exprs) = {omnibus_spec[j].Expression : j \in 1..Len(omnibus_spec)}
        /\ Range(spec.alts) = {omnibus_spec[j].Alternative : j \in 1..Len(omnibus_spec)}
        /\ \A x \in 1..Len(spec.exprs), a \in 1..Len(spec.alts) :
              spec.coef[x][a] = SummedCoefficient(spec.exprs[x], spec.alts[a])
        /\ pc = "make_choices" =>
              \A r \in 1..Len(chooser_chunk), a \in 1..Len(spec.alts) :
                 utilities.data[r][a] = UnmergedUtility(r, spec.alts[a])

\* two rows of the omnibus spec with the same expression and alternative were
\* merged, and the utilities were computed
C29_Witness ==
    /\ Unstacked
    /\ pc = "make_choices"
    /\ \E j, k \in 1..Len(omnibus_spec) :
          /\ j # k
          /\ omnibus_spec[j].Expression = omnibus_spec[k].Expression
          /\ omnibus_spec[j].Alternative = omnibus_spec[k].Alternative
          /\ omnibus_spec[j][segment] = 1
          /\ omnibus_spec[k][segment] = 1
          /\ spec.coef[PosOf(spec.exprs, omnibus_spec[j].Expression)]
                      [PosOf(spec.alts, omnibus_spec[j].Alternative)] = 2


(***************************************************************************)
(* The mode choice steps (mode_choice.py 128-200, 203-293) on the tours    *)
(* table.  A tour has a category, a destination zone and a mode; "" is a   *)
(* missing value.  The choices of _mode_choice_simulate are alternative    *)
(* names, one per chooser, indexed as the choosers.                        *)
(***************************************************************************)
MaxTours == 3

TourCategories == {"subtour", "mandatory"}

Zones == {"taz0", "taz1"}

Modes == Range(SpecBasic.alts)

ToursTables ==
    UNION {[1..n -> [tour_id : {0}, tour_category : TourCategories, destination : Zones, mode : {""}]]
             : n \in 1..MaxTours}

\* tours[tours.tour_category == 'subtour'], line 142: the positions of the rows
subtour_rows(t) == SelectSeq([j \in 1..Len(t) |-> j], LAMBDA j : t[j].tour_category = "subtour")

\* tours[tours.tour_category != 'subtour'], line 216
non_subtour_rows(t) == SelectSeq([j \in 1..Len(t) |-> j], LAMBDA j : t[j].tour_category # "subtour")

\* line 186, subtours['destination'] = choices
store_choices(row, ch) == [row EXCEPT !.destination = ch]

\* assign_in_place(tours, subtours[['destination']]), line 187: the rows of
\* tours that subtours has take the columns handed over
assign_in_place(t, rows, sub, cols) ==
    [j \in 1..Len(t) |->
        IF j \in Range(rows)
        THEN [c \in DOMAIN t[j] |-> IF c \in cols THEN sub[PosOf(rows, j)][c] ELSE t[j][c]]
        ELSE t[j]]

\* inject.add_column("tours", "mode", choices), line 281: the column is the
\* series, missing where the series has no value
add_column_mode(t, rows, ch) ==
    [j \in 1..Len(t) |-> [t[j] EXCEPT !.mode = IF j \in Range(rows) THEN ch[PosOf(rows, j)] ELSE ""]]

InitTours ==
    /\ choosers = <<>>
    /\ spec = SpecBasic
    /\ nest_spec = NoNest
    /\ skims = <<1, 2>>
    /\ locals_d = LocalsD
    /\ chunk_size = 0
    /\ seed = 0
    /\ logsums_mode = FALSE
    /\ check_for_variability = FALSE
    /\ global_rng = 0
    /\ omnibus_spec = <<>>
    /\ segment = ""
    /\ \E t \in ToursTables : tours = [j \in 1..Len(t) |-> [t[j] EXCEPT !.tour_id = j]]
    /\ pc = "steps"
    /\ rows_per_chunk = 0
    /\ offset = 0
    /\ i = 0
    /\ chooser_chunk = <<>>
    /\ skim_df = FreshSkimDf
    /\ expr_i = 0
    /\ value_list = <<>>
    /\ expression_values = NoFrame
    /\ utilities = NoFrame
    /\ nested_exp_utilities = NoFrame
    /\ nested_probabilities = NoFrame
    /\ probs = NoFrame
    /\ choices = <<>>
    /\ rands = <<>>
    /\ result_list = <<>>
    /\ result = <<>>
    /\ log = <<>>
    /\ rng_offset = FreshStreams
    /\ chunk_log = <<>>
    /\ rands_list = <<>>
    /\ par_pc = <<>>
    /\ par_bound = <<>>
    /\ par_out = <<>>

tours_frame == <<choosers, spec, nest_spec, skims, chunk_size, seed, logsums_mode, check_for_variability,
                 omnibus_spec, segment, locals_d, par_vars, global_rng, rows_per_chunk, offset, i,
                 chooser_chunk, skim_df, expr_i, value_list, expression_values, utilities,
                 nested_exp_utilities, nested_probabilities, probs, rands,
                 result_list, result, log, rng_offset, chunk_log, rands_list>>

\* tour_mode_choice_simulate, lines 203-293: the tours that are not subtours
\* are the choosers; pd.concat of an empty list raises
TourModeChoiceSimulate ==
    /\ pc = "steps"
    /\ LET rows == non_subtour_rows(tours)
       IN  IF rows = <<>>
           THEN pc' = "raised" /\ UNCHANGED <<tours, choices>>
           ELSE \E ch \in [1..Len(rows) -> Modes] :
                   /\ choices' = [k \in 1..Len(rows) |-> [key |-> tours[rows[k]].tour_id, v |-> ch[k]]]
                   /\ tours' = add_column_mode(tours, rows, ch)
                   /\ pc' = "steps"
    /\ UNCHANGED tours_frame

\* atwork_subtour_mode_choice_simulate, lines 128-200: the subtours are the
\* choosers; simple_simulate raises when there is none
AtworkSubtourModeChoiceSimulate ==
    /\ pc = "steps"
    /\ LET rows == subtour_rows(tours)
       IN  IF rows = <<>>
           THEN pc' = "raised" /\ UNCHANGED <<tours, choices>>
           ELSE \E ch \in [1..Len(rows) -> Modes] :
                   LET subtours == [k \in 1..Len(rows) |-> store_choices(tours[rows[k]], ch[k])]
                   IN  /\ choices' = [k \in 1..Len(rows) |-> [key |-> tours[rows[k]].tour_id, v |-> ch[k]]]
                       /\ tours' = assign_in_place(tours, rows, subtours, {"destination"})
                       /\ pc' = "steps"
    /\ UNCHANGED tours_frame

NextTours ==
    \/ TourModeChoiceSimulate
    \/ AtworkSubtourModeChoiceSimulate

SpecTours == InitTours /\ [][NextTours]_vars

\* the step that ran is atwork_subtour_mode_choice_simulate: the choices are those of the subtours
SubtourStep ==
    /\ pc' = "steps"
    /\ choices' # <<>>
    /\ \A k \in 1..Len(choices') : tours[choices'[k].key].tour_category = "subtour"

\* the mode chosen for tour j by the step
ChosenMode(j) == choices'[CHOOSE k \in 1..Len(choices') : choices'[k].key = j].v

(***************************************************************************)
(* C30: atwork_subtour_mode_choice_simulate records the chosen mode of     *)
(* every at-work subtour in the tours table's mode attribute and leaves    *)
(* every other attribute of every tour, in particular each subtour's       *)
(* destination, unchanged; tours that are not subtours are not modified.   *)
(***************************************************************************)
C30_Original ==
    [][(AtworkSubtourModeChoiceSimulate /\ SubtourStep) =>
          \A j \in 1..Len(tours) :
             IF tours[j].tour_category = "subtour"
             THEN tours'[j] = [tours[j] EXCEPT !.mode = ChosenMode(j)]
             ELSE tours'[j] = tours[j]]_vars

\* what the step does: the chosen mode replaces the destination of the
\* subtour, the mode attribute stays as it was
C30_ModeStoredInDestination ==
    [][(AtworkSubtourModeChoiceSimulate /\ SubtourStep) =>
          \A j \in 1..Len(tours) :
             IF tours[j].tour_category = "subtour"
             THEN tours'[j] = [tours[j] EXCEPT !.destination = ChosenMode(j)]
             ELSE tours'[j] = tours[j]]_vars

====
